---------------------------- MODULE Spec2Model ----------------------------
(***************************************************************************)
(* Ticket authority of the Kerberos demo backend: KerberosAuth             *)
(* (backend/src/auth/kerberos_auth.py) on top of CryptoUtils               *)
(* (backend/src/utils/crypto_utils.py), and the HTTP handlers of           *)
(* backend/app.py that call it.                                            *)
(*                                                                         *)
(* Strings that cross the boundary are sequences of byte values: a ticket  *)
(* is the text base64.b64encode produces, decoded by base64.b64decode, and *)
(* a Fernet token is url-safe base64 text over the token's binary layout   *)
(* version | timestamp | iv | ciphertext | hmac.  The widths of the binary *)
(* fields are scaled to one byte each; the base64 arithmetic is exact.     *)
(* Fernet itself is the ideal authenticated cipher: a binary token         *)
(* decrypts under a key exactly when Fernet.encrypt produced it under that *)
(* key (fernetLog), and random draws (iv, session keys) never repeat.      *)
(***************************************************************************)
EXTENDS Integers, Sequences, FiniteSets, TLC

(***************************************************************************)
(* base64 (binascii.b2a_base64 / a2b_base64, non-strict mode).             *)
(***************************************************************************)
PadChar == 61

\* table_b2a_base64: the standard alphabet A-Z a-z 0-9 + /
B64Char(v) ==
    IF v < 26 THEN 65 + v
    ELSE IF v < 52 THEN 71 + v
    ELSE IF v < 62 THEN v - 4
    ELSE IF v = 62 THEN 43
    ELSE 47

\* table_a2b_base64: 64 stands for "not in the alphabet"
B64Value(c) ==
    IF c >= 65 /\ c <= 90 THEN c - 65
    ELSE IF c >= 97 /\ c <= 122 THEN c - 71
    ELSE IF c >= 48 /\ c <= 57 THEN c + 4
    ELSE IF c = 43 THEN 62
    ELSE IF c = 47 THEN 63
    ELSE 64

RECURSIVE b64encode(_)
b64encode(s) ==
    IF Len(s) = 0 THEN <<>>
    ELSE IF Len(s) = 1 THEN
        << B64Char(s[1] \div 4), B64Char((s[1] % 4) * 16), PadChar, PadChar >>
    ELSE IF Len(s) = 2 THEN
        << B64Char(s[1] \div 4),
           B64Char((s[1] % 4) * 16 + s[2] \div 16),
           B64Char((s[2] % 16) * 4),
           PadChar >>
    ELSE
        << B64Char(s[1] \div 4),
           B64Char((s[1] % 4) * 16 + s[2] \div 16),
           B64Char((s[2] % 16) * 4 + s[3] \div 64),
           B64Char(s[3] % 64) >> \o b64encode(SubSeq(s, 4, Len(s)))

Ok(v) == [ok |-> TRUE, value |-> v]
Raise(e) == [ok |-> FALSE, error |-> e]

\* The decoding loop of a2b_base64 with strict_mode off: i is the next input
\* position, quad_pos, leftchar and pads are the loop's variables, out the
\* bytes written so far.
RECURSIVE a2b_loop(_, _, _, _, _, _)
a2b_loop(s, i, quad_pos, leftchar, pads, out) ==
    IF i > Len(s) THEN
        IF quad_pos # 0 THEN Raise("binascii.Error") ELSE Ok(out)
    ELSE IF s[i] = PadChar THEN
        IF quad_pos >= 2 /\ quad_pos + pads + 1 >= 4
        THEN Ok(out)
        ELSE a2b_loop(s, i + 1, quad_pos, leftchar,
                      IF quad_pos >= 2 THEN pads + 1 ELSE pads, out)
    ELSE IF B64Value(s[i]) >= 64 THEN
        a2b_loop(s, i + 1, quad_pos, leftchar, pads, out)
    ELSE
        LET v == B64Value(s[i]) IN
        CASE quad_pos = 0 -> a2b_loop(s, i + 1, 1, v, 0, out)
          [] quad_pos = 1 ->
               a2b_loop(s, i + 1, 2, v % 16, 0, Append(out, leftchar * 4 + v \div 16))
          [] quad_pos = 2 ->
               a2b_loop(s, i + 1, 3, v % 4, 0, Append(out, leftchar * 16 + v \div 4))
          [] quad_pos = 3 ->
               a2b_loop(s, i + 1, 0, 0, 0, Append(out, leftchar * 64 + v))

b64decode(s) == a2b_loop(s, 1, 0, 0, 0, <<>>)

\* base64.urlsafe_b64encode: the standard text with + -> - and / -> _
urlsafe_b64encode(s) ==
    LET t == b64encode(s) IN
    [i \in 1..Len(t) |-> IF t[i] = 43 THEN 45 ELSE IF t[i] = 47 THEN 95 ELSE t[i]]

\* base64.urlsafe_b64decode: - -> + and _ -> / and then the standard decoder
urlsafe_b64decode(s) ==
    b64decode([i \in 1..Len(s) |-> IF s[i] = 45 THEN 43 ELSE IF s[i] = 95 THEN 47 ELSE s[i]])

(***************************************************************************)
(* Bounds of the model.                                                    *)
(***************************************************************************)
\* the clock runs for MaxTime hours from the hour StartHour, TickHours at a time
MaxTime == 12
StartHour == 16
TickHours == 2
\* tickets the instance issues in one behaviour
MaxTickets == 2
\* salts bcrypt.gensalt() may return
MaxSalt == 2
\* envelope members one cipher block holds (AES block size, scaled)
BlockMembers == 4
\* hash_password results kept for later verify_password calls
MaxHashes == 2
\* encrypt_data calls made directly on the instance's crypto_utils
MaxSeals == 2
MaxTokens == 1
MaxChain == 3

(***************************************************************************)
(* Program constants.                                                      *)
(***************************************************************************)
TGT_LIFETIME_HOURS == 8
SERVICE_TICKET_LIFETIME_HOURS == 2
PBKDF2_ITERATIONS == 100000
FERNET_VERSION == 128
HMAC_BLOCK_SIZE == 64
AES_BLOCK_SIZE == 16

(***************************************************************************)
(* Python values.  Every value carries its type as the name of its field,  *)
(* so that None, strings, lists and objects can be told apart.             *)
(***************************************************************************)
None == [none |-> TRUE]
PyStr(s) == [str |-> s]
PyList(l) == [list |-> l]
PyDict(d) == [dict |-> d]
\* texts made by formatting carry what was formatted
IsStr(v) == DOMAIN v \in {{"str"}, {"isostr"}, {"token_urlsafe"}}
\* "not v" is false for these
Truthy(v) ==
    /\ v # None /\ v # PyStr("") /\ v # PyList(<<>>) /\ v # PyDict(<<>>)
    /\ v # [chars |-> << >>]

\* timedelta(hours=h) and datetime arithmetic, in hours
timedelta(h) == h

\* datetime.isoformat(): the text "<date>T<time>", here day and hour of day
isoformat(t) == [isostr |-> [date |-> t \div 24, time |-> t % 24]]

\* datetime.fromisoformat(): raises unless given such a text
fromisoformat(v) ==
    IF DOMAIN v = {"isostr"}
    THEN Ok(v.isostr.date * 24 + v.isostr.time)
    ELSE Raise(IF IsStr(v) THEN "ValueError" ELSE "TypeError")

\* a dict is the sequence of its (key, value) items in insertion order
DictHas(d, k) == \E i \in 1..Len(d) : d[i][1] = k
DictItem(d, k) == d[CHOOSE i \in 1..Len(d) : d[i][1] = k][2]
DictGet(d, k, default) == IF DictHas(d, k) THEN DictItem(d, k) ELSE default

\* json.dumps of a dict of strings, lists of strings and None: the JSON text
\* is the sequence of its members, each value written as a JSON value
RECURSIVE JsonValue(_)
JsonValue(v) ==
    IF v = None THEN [t |-> "null"]
    ELSE IF DOMAIN v = {"list"}
         THEN [t |-> "array", a |-> [i \in 1..Len(v.list) |-> JsonValue(v.list[i])]]
         ELSE [t |-> "string", s |-> v]

json_dumps(d) == [json |-> [i \in 1..Len(d) |-> << d[i][1], JsonValue(d[i][2]) >>]]

RECURSIVE PyValue(_)
PyValue(j) ==
    IF j.t = "null" THEN None
    ELSE IF j.t = "array" THEN PyList([i \in 1..Len(j.a) |-> PyValue(j.a[i])])
    ELSE j.s

\* json.loads: the dict of a JSON object text [json |-> members]; the value
\* of another JSON text [jsonv |-> value], marked as no dict; raises on a
\* text that is not JSON
json_loads(text) ==
    IF "json" \in DOMAIN text
    THEN Ok([i \in 1..Len(text.json) |-> << text.json[i][1], PyValue(text.json[i][2]) >>])
    ELSE IF "jsonv" \in DOMAIN text
    THEN [ok |-> TRUE, value |-> PyValue(text.jsonv), nondict |-> TRUE]
    ELSE Raise("JSONDecodeError")

\* what json.loads returned is a dict: only a dict takes ['expires_at'] and
\* .get(...), any other value raises TypeError or AttributeError
IsDict(loaded) == "nondict" \notin DOMAIN loaded

\* A str that is no JSON object text is the sequence of its code points,
\* [chars |-> ...]; bytes are [bytes |-> ...].
PyChars(c) == [chars |-> c]
PyBytes(b) == [bytes |-> b]

\* the UTF-8 bytes of one code point
utf8_bytes(c) ==
    IF c < 128 THEN << c >>
    ELSE IF c < 2048 THEN << 192 + (c \div 64), 128 + (c % 64) >>
    ELSE IF c < 65536
         THEN << 224 + (c \div 4096), 128 + ((c \div 64) % 64), 128 + (c % 64) >>
         ELSE << 240 + (c \div 262144), 128 + ((c \div 4096) % 64),
                 128 + ((c \div 64) % 64), 128 + (c % 64) >>

\* str.encode('utf-8') of code points: a lone surrogate cannot be encoded
RECURSIVE utf8_encode(_)
utf8_encode(c) ==
    IF Len(c) = 0 THEN Ok(<< >>)
    ELSE IF c[1] >= 55296 /\ c[1] <= 57343 THEN Raise("UnicodeEncodeError")
    ELSE LET rest == utf8_encode(Tail(c)) IN
         IF ~rest.ok THEN rest ELSE Ok(utf8_bytes(c[1]) \o rest.value)

\* bytes.decode('utf-8'): strict, refusing stray and missing continuation
\* bytes, overlong forms, surrogates and code points past U+10FFFF
RECURSIVE utf8_decode(_)
utf8_decode(b) ==
    LET cont(i) == i <= Len(b) /\ b[i] >= 128 /\ b[i] <= 191
        more(n, c) == LET rest == utf8_decode(SubSeq(b, n + 1, Len(b))) IN
                      IF ~rest.ok THEN rest ELSE Ok(<< c >> \o rest.value)
    IN  IF Len(b) = 0 THEN Ok(<< >>)
        ELSE IF b[1] < 128 THEN more(1, b[1])
        ELSE IF b[1] >= 194 /\ b[1] <= 223 /\ cont(2)
             THEN more(2, (b[1] - 192) * 64 + (b[2] - 128))
        ELSE IF /\ b[1] >= 224 /\ b[1] <= 239 /\ cont(2) /\ cont(3)
                /\ (b[1] = 224 => b[2] >= 160)
                /\ (b[1] = 237 => b[2] <= 159)
             THEN more(3, (b[1] - 224) * 4096 + (b[2] - 128) * 64 + (b[3] - 128))
        ELSE IF /\ b[1] >= 240 /\ b[1] <= 244 /\ cont(2) /\ cont(3) /\ cont(4)
                /\ (b[1] = 240 => b[2] >= 144)
                /\ (b[1] = 244 => b[2] <= 143)
             THEN more(4, (b[1] - 240) * 262144 + (b[2] - 128) * 4096
                          + (b[3] - 128) * 64 + (b[4] - 128))
        ELSE Raise("UnicodeDecodeError")

\* data.encode('utf-8'); the text json.dumps writes is ASCII, its bytes are
\* its characters
str_encode(data) ==
    IF "chars" \in DOMAIN data
    THEN LET b == utf8_encode(data.chars) IN
         IF b.ok THEN Ok(PyBytes(b.value)) ELSE b
    ELSE Ok(data)

\* decrypted_bytes.decode('utf-8')
bytes_decode(b) ==
    IF "bytes" \in DOMAIN b
    THEN LET c == utf8_decode(b.bytes) IN
         IF c.ok THEN Ok(PyChars(c.value)) ELSE c
    ELSE Ok(b)

(***************************************************************************)
(* CryptoUtils.                                                            *)
(***************************************************************************)
\* _derive_key leaving the salt out of the derivation
_derive_key_unsalted(password, salt) ==
    [kdf |-> "PBKDF2HMAC-SHA256", length |-> 32, iterations |-> PBKDF2_ITERATIONS,
     password |-> password, salt |-> ""]

\* _derive_key: PBKDF2-HMAC-SHA256 of the passphrase, as the term it computes
_derive_key(password, salt) ==
    [kdf |-> "PBKDF2HMAC-SHA256", length |-> 32, iterations |-> PBKDF2_ITERATIONS,
     password |-> password, salt |-> salt]

\* CryptoUtils.__init__ with the environment's CRYPTO_SALT / CRYPTO_PASSWORD
CryptoUtils(env_salt, env_password) ==
    [salt |-> env_salt, _fernet_key |-> _derive_key(env_password, env_salt)]

\* number of cipher blocks PKCS7 padding gives a plaintext
Blocks(data) ==
    (IF "json" \in DOMAIN data THEN Len(data.json)
     ELSE IF "bytes" \in DOMAIN data THEN Len(data.bytes)
     ELSE 1) \div BlockMembers + 1

RECURSIVE SumBytes(_)
SumBytes(s) == IF Len(s) = 0 THEN 0 ELSE s[1] + SumBytes(Tail(s))

\* The binary Fernet token of one Fernet.encrypt call (key, data, the current
\* time ts and the random iv): version | timestamp | iv | ciphertext | hmac.
\* The ciphertext and hmac bytes are fixed by the call; they show nothing of
\* the data to a reader without the key.
FernetBin(e) ==
    LET body == << FERNET_VERSION, e.ts % 256, e.iv % 256 >>
                \o [j \in 1..Blocks(e.data) |-> (37 * e.iv + 101 * j) % 256]
    IN  Append(body, SumBytes(body) % 256)

\* Fernet.encrypt with one iv for every token
FernetEncrypt_fixed_iv(e) == urlsafe_b64encode(FernetBin([e EXCEPT !.iv = 0]))

\* Fernet.encrypt: the url-safe base64 text of the binary token
FernetEncrypt(e) == urlsafe_b64encode(FernetBin(e))

\* Fernet.decrypt(token) with no ttl: InvalidToken unless the text decodes to
\* a binary token with the version byte whose hmac verifies under the key,
\* that is, to one Fernet.encrypt made under this key
FernetDecrypt(key, log, token) ==
    LET d == urlsafe_b64decode(token) IN
    IF ~d.ok THEN Raise("InvalidToken")
    ELSE IF Len(d.value) = 0 \/ d.value[1] # FERNET_VERSION THEN Raise("InvalidToken")
    ELSE IF \E i \in 1..Len(log) : log[i].key = key /\ FernetBin(log[i]) = d.value
         THEN Ok(log[CHOOSE i \in 1..Len(log) :
                        log[i].key = key /\ FernetBin(log[i]) = d.value].data)
         ELSE Raise("InvalidToken")

\* encrypt_data(data) at time ts with the iv Fernet draws: the token, or
\* what data.encode raises
encrypt_data(crypto_utils, data, ts, iv) ==
    LET b == str_encode(data) IN
    IF ~b.ok THEN b
    ELSE Ok(FernetEncrypt([key |-> crypto_utils._fernet_key, ts |-> ts, iv |-> iv,
                           data |-> b.value]))

\* decrypt_data re-using the first token sealed under the key
decrypt_data_first(crypto_utils, log, encrypted_data) ==
    LET d == FernetDecrypt(crypto_utils._fernet_key, log, encrypted_data) IN
    IF ~d.ok THEN d
    ELSE bytes_decode(log[CHOOSE i \in 1..Len(log) :
                            /\ log[i].key = crypto_utils._fernet_key
                            /\ \A j \in 1..(i - 1) :
                                  log[j].key # crypto_utils._fernet_key].data)

\* decrypted_bytes.decode('utf-8') of what Fernet returned, unless it raised
DecodeDecrypted(decrypted_bytes) ==
    IF ~decrypted_bytes.ok THEN decrypted_bytes ELSE bytes_decode(decrypted_bytes.value)

\* decrypt_data(encrypted_data): re-raises what Fernet or the decoding raises
decrypt_data(crypto_utils, log, encrypted_data) ==
    DecodeDecrypted(FernetDecrypt(crypto_utils._fernet_key, log, encrypted_data))

\* generate_session_key: secrets.token_urlsafe(32), the n-th random draw
generate_session_key(n) == [token_urlsafe |-> n]

\* The key HMAC-SHA256 works with: a key longer than the hash's block is
\* replaced by its digest, a shorter one is filled with zero bytes up to
\* the block
HmacKey(key) ==
    IF Len(key) > HMAC_BLOCK_SIZE THEN [digest |-> key]
    ELSE [block |-> key \o [i \in 1..(HMAC_BLOCK_SIZE - Len(key)) |-> 0]]

\* PBKDF2HMAC(SHA256, length 32, salt, 100000).derive(key_material): every
\* round is an HMAC keyed with the key material, so the result is a function
\* of the HMAC key and the salt
PBKDF2HMAC_derive(key_material, salt) ==
    [kdf |-> "PBKDF2HMAC-SHA256", length |-> 32, iterations |-> PBKDF2_ITERATIONS,
     key |-> HmacKey(key_material), salt |-> salt]

\* hash_password(password, salt), n the random draw secrets.token_bytes(32)
\* makes when no salt is given: (password_hash, salt), or what
\* password.encode raises
hash_password(password, salt, n) ==
    LET used == IF salt = None THEN [token_bytes |-> n] ELSE salt
        key_material == str_encode(password)
    IN  IF ~key_material.ok THEN key_material
        ELSE Ok(<< PBKDF2HMAC_derive(key_material.value.bytes, used), used >>)

\* verify_password(password, password_hash, salt): kdf.verify derives again
\* and compares; every exception gives False
verify_password(password, password_hash, salt) ==
    LET key_material == str_encode(password) IN
    IF ~key_material.ok THEN FALSE
    ELSE PBKDF2HMAC_derive(key_material.value.bytes, salt) = password_hash

\* _pad_data adding no block to data that fills its blocks
_pad_data_to_block(data) ==
    LET padding_length == (AES_BLOCK_SIZE - (Len(data) % AES_BLOCK_SIZE)) % AES_BLOCK_SIZE
    IN  data \o [i \in 1..padding_length |-> padding_length]

\* _pad_data: PKCS7 padding up to the next multiple of the block size
_pad_data(data) ==
    LET padding_length == AES_BLOCK_SIZE - (Len(data) % AES_BLOCK_SIZE) IN
    data \o [i \in 1..padding_length |-> padding_length]

\* _unpad_data: padded_data[:-padded_data[-1]].  The slice is empty when the
\* last byte is 0 or not less than the length; indexing empty data raises.
_unpad_data(padded_data) ==
    IF Len(padded_data) = 0 THEN Raise("IndexError")
    ELSE LET padding_length == padded_data[Len(padded_data)] IN
         Ok(IF padding_length = 0 \/ padding_length >= Len(padded_data)
            THEN << >>
            ELSE SubSeq(padded_data, 1, Len(padded_data) - padding_length))

\* aes_encrypt(plaintext, key) with the iv secrets.token_bytes(16) draws:
\* (ciphertext, iv), the ciphertext being the AES-256-CBC encryption of the
\* padded plaintext under key and iv, or what plaintext.encode raises
aes_encrypt(plaintext, key, iv) ==
    LET encoded == str_encode(plaintext) IN
    IF ~encoded.ok THEN encoded
    ELSE Ok(<< [aes_cbc |-> _pad_data(encoded.value.bytes), key |-> key, iv |-> iv],
               iv >>)

\* what the decryptor returns for a ciphertext: the padded plaintext under
\* the key and iv it was encrypted with, other blocks under any other
AesCbcDecrypt(ciphertext, key, iv, other_blocks) ==
    IF ciphertext.key = key /\ ciphertext.iv = iv THEN ciphertext.aes_cbc
    ELSE other_blocks

\* the plaintext bytes decoded, unless removing the padding raised
DecodeUnpadded(plaintext) ==
    IF ~plaintext.ok THEN plaintext ELSE bytes_decode(PyBytes(plaintext.value))

\* aes_decrypt(ciphertext, key, iv): decrypt, _unpad_data, decode; re-raises
aes_decrypt(ciphertext, key, iv, other_blocks) ==
    DecodeUnpadded(_unpad_data(AesCbcDecrypt(ciphertext, key, iv, other_blocks)))

(***************************************************************************)
(* User and the credential store.                                          *)
(***************************************************************************)
\* bcrypt.hashpw(password, salt) and bcrypt.checkpw(password, hashed)
bcrypt_hashpw(password, salt) == [bcrypt |-> password, salt |-> salt]
bcrypt_checkpw(password, hashed) == bcrypt_hashpw(password, hashed.salt) = hashed

\* User.__init__ at time clock
User(id, username, password_hash, roles, clock) ==
    [id |-> id, username |-> username, password_hash |-> password_hash,
     roles |-> IF roles = <<>> THEN << "user" >> ELSE roles,
     created_at |-> clock, last_login |-> None, login_count |-> 0,
     is_active |-> TRUE]

\* the mock store _get_user_by_username builds on every call; gensalt is
\* the salts bcrypt.gensalt() returns for its three entries
mock_users(gensalt, clock) ==
    [admin |-> User(PyStr("1"), PyStr("admin"),
                    bcrypt_hashpw("admin123", gensalt[1]), << "admin", "user" >>, clock),
     user  |-> User(PyStr("2"), PyStr("user"),
                    bcrypt_hashpw("user123", gensalt[2]), << "user" >>, clock),
     guest |-> User(PyStr("3"), PyStr("guest"),
                    bcrypt_hashpw("guest123", gensalt[3]), << "guest" >>, clock)]

\* mock_users.get(username): the user, None, or TypeError for a username
\* that cannot be a dict key (a list or a dict)
_get_user_by_username(username, gensalt, clock) ==
    IF DOMAIN username \in { {"list"}, {"dict"} } THEN Raise("TypeError")
    ELSE IF DOMAIN username = {"str"} /\ username.str \in DOMAIN mock_users(gensalt, clock)
    THEN mock_users(gensalt, clock)[username.str]
    ELSE None

\* _verify_password that reports a match for every password
_verify_password_any(password, password_hash) == TRUE

\* bcrypt.checkpw(password.encode('utf-8'), password_hash): a password that
\* is no string has no encode
checkpw_encoded(password, password_hash) ==
    IF DOMAIN password = {"str"}
    THEN Ok(bcrypt_checkpw(password.str, password_hash))
    ELSE Raise("AttributeError")

\* the result of the try, False on any exception
CheckedOrFalse(checked) == IF checked.ok THEN checked.value ELSE FALSE

\* _verify_password: bcrypt.checkpw(...), any exception gives False
_verify_password(password, password_hash) ==
    CheckedOrFalse(checkpw_encoded(password, password_hash))

(***************************************************************************)
(* KerberosAuth.                                                           *)
(***************************************************************************)
\* KerberosAuth.__init__ with the process environment env
KerberosAuth(env) ==
    [secret_key |-> env.KERBEROS_SECRET,
     crypto_utils |-> CryptoUtils(env.CRYPTO_SALT, env.CRYPTO_PASSWORD),
     tgt_lifetime |-> timedelta(TGT_LIFETIME_HOURS),
     service_ticket_lifetime |-> timedelta(SERVICE_TICKET_LIFETIME_HOURS)]

\* the defaults os.getenv falls back to
DefaultEnv ==
    [KERBEROS_SECRET |-> "kerberos-secret-key", CRYPTO_SALT |-> "kerberos-salt",
     CRYPTO_PASSWORD |-> "kerberos-password"]

\* authenticate_user letting the error of the lookup reach the caller
authenticate_user_uncaught(username, password, gensalt, clock) ==
    LET user == _get_user_by_username(username, gensalt, clock) IN
    IF "error" \in DOMAIN user THEN user
    ELSE IF user # None /\ _verify_password(password, user.password_hash)
    THEN user
    ELSE None

\* authenticate_user once the lookup has returned user (or raised): the
\* user when there is one and the password verifies, None otherwise
VerifiedOrNone(user, password) ==
    IF "error" \in DOMAIN user THEN None
    ELSE IF user # None /\ _verify_password(password, user.password_hash)
    THEN user
    ELSE None

\* authenticate_user: the user when the lookup finds one and the password
\* verifies; None otherwise, also when the lookup raises
authenticate_user(username, password, gensalt, clock) ==
    VerifiedOrNone(_get_user_by_username(username, gensalt, clock), password)

\* the dict generate_tgt builds: issued_at is read from the clock at t1 and
\* expires_at at t2 >= t1; n is the random draw of the session key
tgt_data(self, user_id, username, t1, t2, n) ==
    << << "user_id", user_id >>,
       << "username", username >>,
       << "issued_at", isoformat(t1) >>,
       << "expires_at", isoformat(t2 + self.tgt_lifetime) >>,
       << "session_key", generate_session_key(n) >>,
       << "permissions", PyList(<< PyStr("read"), PyStr("write"), PyStr("execute") >>) >> >>

\* decrypt_data of what base64.b64decode returned, unless it raised
DecryptDecoded(self, log, encrypted_data) ==
    IF ~encrypted_data.ok THEN encrypted_data
    ELSE decrypt_data(self.crypto_utils, log, encrypted_data.value)

\* json.loads of what decrypt_data returned, unless it raised
LoadDecrypted(decrypted_data) ==
    IF ~decrypted_data.ok THEN decrypted_data ELSE json_loads(decrypted_data.value)

\* what validate_service_ticket, _validate_tgt and get_ticket_info share:
\* base64.b64decode, decrypt_data, json.loads
DecodeTicket(self, log, ticket) ==
    LoadDecrypted(DecryptDecoded(self, log, b64decode(ticket)))

\* ticket_data['expires_at'] parsed, or what the lookup or the parse raises
ExpiresAt(ticket_data) ==
    IF ~DictHas(ticket_data, "expires_at") THEN Raise("KeyError")
    ELSE fromisoformat(DictItem(ticket_data, "expires_at"))

\* validate_service_ticket without the expiry check
validate_service_ticket_unexpiring(self, log, clock, service_ticket) ==
    LET ticket_data == DecodeTicket(self, log, service_ticket) IN
    ticket_data.ok /\ IsDict(ticket_data) /\ ExpiresAt(ticket_data.value).ok

\* validate_service_ticket refusing the ticket at the instant it expires
validate_service_ticket_at_expiry(self, log, clock, service_ticket) ==
    LET ticket_data == DecodeTicket(self, log, service_ticket) IN
    IF ~ticket_data.ok THEN FALSE
    ELSE IF ~IsDict(ticket_data) THEN FALSE
    ELSE LET expires_at == ExpiresAt(ticket_data.value) IN
         IF ~expires_at.ok THEN FALSE
         ELSE IF clock >= expires_at.value THEN FALSE
         ELSE TRUE

\* validate_service_ticket with the comparison turned round
validate_service_ticket_inverted(self, log, clock, service_ticket) ==
    LET ticket_data == DecodeTicket(self, log, service_ticket) IN
    IF ~ticket_data.ok THEN FALSE
    ELSE IF ~IsDict(ticket_data) THEN FALSE
    ELSE LET expires_at == ExpiresAt(ticket_data.value) IN
         IF ~expires_at.ok THEN FALSE
         ELSE IF clock < expires_at.value THEN FALSE
         ELSE TRUE

\* validate_service_ticket comparing the clock with issued_at
validate_service_ticket_issued_at(self, log, clock, service_ticket) ==
    LET ticket_data == DecodeTicket(self, log, service_ticket) IN
    IF ~ticket_data.ok THEN FALSE
    ELSE IF ~IsDict(ticket_data) THEN FALSE
    ELSE LET issued_at == fromisoformat(DictGet(ticket_data.value, "issued_at", None)) IN
         IF ~issued_at.ok THEN FALSE
         ELSE IF clock > issued_at.value THEN FALSE
         ELSE TRUE

\* validate_service_ticket accepting only tickets that name a service
validate_service_ticket_service_only(self, log, clock, service_ticket) ==
    LET ticket_data == DecodeTicket(self, log, service_ticket) IN
    IF ~ticket_data.ok THEN FALSE
    ELSE IF ~IsDict(ticket_data) THEN FALSE
    ELSE IF ~DictHas(ticket_data.value, "service_name") THEN FALSE
    ELSE LET expires_at == ExpiresAt(ticket_data.value) IN
         IF ~expires_at.ok THEN FALSE
         ELSE IF clock > expires_at.value THEN FALSE
         ELSE TRUE

\* validate_service_ticket taking an envelope without a readable expiry as
\* one that never expires
validate_service_ticket_no_expiry(self, log, clock, service_ticket) ==
    LET ticket_data == DecodeTicket(self, log, service_ticket) IN
    IF ~ticket_data.ok THEN FALSE
    ELSE IF ~IsDict(ticket_data) THEN FALSE
    ELSE LET expires_at == ExpiresAt(ticket_data.value) IN
         IF ~expires_at.ok THEN TRUE
         ELSE IF clock > expires_at.value THEN FALSE
         ELSE TRUE

\* validate_service_ticket with revocation: a ticket is refused once a later
\* one has been sealed
validate_service_ticket_latest_only(self, log, clock, service_ticket) ==
    LET ticket_data == DecodeTicket(self, log, service_ticket) IN
    IF ~ticket_data.ok THEN FALSE
    ELSE IF ~IsDict(ticket_data) THEN FALSE
    ELSE IF b64decode(service_ticket).value # FernetEncrypt(log[Len(log)]) THEN FALSE
    ELSE LET expires_at == ExpiresAt(ticket_data.value) IN
         IF ~expires_at.ok THEN FALSE
         ELSE IF clock > expires_at.value THEN FALSE
         ELSE TRUE

validate_service_ticket(self, log, clock, service_ticket) ==
    LET ticket_data == DecodeTicket(self, log, service_ticket) IN
    IF ~ticket_data.ok THEN FALSE
    ELSE IF ~IsDict(ticket_data) THEN FALSE
    ELSE LET expires_at == ExpiresAt(ticket_data.value) IN
         IF ~expires_at.ok THEN FALSE
         ELSE IF clock > expires_at.value THEN FALSE
         ELSE TRUE

\* _validate_tgt refusing the TGT at the instant it expires
_validate_tgt_at_expiry(self, log, clock, tgt) ==
    LET data == DecodeTicket(self, log, tgt) IN
    IF ~data.ok THEN None
    ELSE IF ~IsDict(data) THEN None
    ELSE LET expires_at == ExpiresAt(data.value) IN
         IF ~expires_at.ok THEN None
         ELSE IF clock >= expires_at.value THEN None
         ELSE PyDict(data.value)

\* _validate_tgt refusing a ticket that names a service
_validate_tgt_of_kind(self, log, clock, tgt) ==
    LET data == DecodeTicket(self, log, tgt) IN
    IF ~data.ok THEN None
    ELSE IF ~IsDict(data) THEN None
    ELSE IF DictHas(data.value, "service_name") THEN None
    ELSE LET expires_at == ExpiresAt(data.value) IN
         IF ~expires_at.ok THEN None
         ELSE IF clock > expires_at.value THEN None
         ELSE PyDict(data.value)

_validate_tgt(self, log, clock, tgt) ==
    LET data == DecodeTicket(self, log, tgt) IN
    IF ~data.ok THEN None
    ELSE IF ~IsDict(data) THEN None
    ELSE LET expires_at == ExpiresAt(data.value) IN
         IF ~expires_at.ok THEN None
         ELSE IF clock > expires_at.value THEN None
         ELSE PyDict(data.value)

\* service_ticket_data reading a key the TGT does not have
service_ticket_data_no_permissions(self, tgt_dict, service_name, t1, t2, n) ==
    << << "user_id", DictItem(tgt_dict, "user_id") >>,
       << "username", DictItem(tgt_dict, "username") >>,
       << "service_name", service_name >>,
       << "issued_at", isoformat(t1) >>,
       << "expires_at", isoformat(t2 + self.service_ticket_lifetime) >>,
       << "session_key", generate_session_key(n) >>,
       << "permissions", DictGet(tgt_dict, "permission", PyList(<<>>)) >> >>

\* service_ticket_data carrying the TGT's session key on
service_ticket_data_same_session_key(self, tgt_dict, service_name, t1, t2, n) ==
    << << "user_id", DictItem(tgt_dict, "user_id") >>,
       << "username", DictItem(tgt_dict, "username") >>,
       << "service_name", service_name >>,
       << "issued_at", isoformat(t1) >>,
       << "expires_at", isoformat(t2 + self.service_ticket_lifetime) >>,
       << "session_key", DictGet(tgt_dict, "session_key", generate_session_key(n)) >>,
       << "permissions", DictGet(tgt_dict, "permissions", PyList(<<>>)) >> >>

\* service_ticket_data with an expiry no later than the TGT's
service_ticket_data_within_tgt(self, tgt_dict, service_name, t1, t2, n) ==
    << << "user_id", DictItem(tgt_dict, "user_id") >>,
       << "username", DictItem(tgt_dict, "username") >>,
       << "service_name", service_name >>,
       << "issued_at", isoformat(t1) >>,
       << "expires_at",
          IF t2 + self.service_ticket_lifetime
               > fromisoformat(DictItem(tgt_dict, "expires_at")).value
          THEN DictItem(tgt_dict, "expires_at")
          ELSE isoformat(t2 + self.service_ticket_lifetime) >>,
       << "session_key", generate_session_key(n) >>,
       << "permissions", DictGet(tgt_dict, "permissions", PyList(<<>>)) >> >>

\* the dict generate_service_ticket builds from the validated TGT's dict
service_ticket_data(self, tgt_dict, service_name, t1, t2, n) ==
    << << "user_id", DictItem(tgt_dict, "user_id") >>,
       << "username", DictItem(tgt_dict, "username") >>,
       << "service_name", service_name >>,
       << "issued_at", isoformat(t1) >>,
       << "expires_at", isoformat(t2 + self.service_ticket_lifetime) >>,
       << "session_key", generate_session_key(n) >>,
       << "permissions", DictGet(tgt_dict, "permissions", PyList(<<>>)) >> >>

\* generate_service_ticket up to the encryption: the dict to seal, or what
\* is raised.  The TGT is validated at time t0.
generate_service_ticket(self, log, tgt, service_name, t0, t1, t2, n) ==
    LET validated == _validate_tgt(self, log, t0, tgt) IN
    IF ~Truthy(validated) THEN Raise("ValueError: Invalid TGT")
    ELSE IF ~DictHas(validated.dict, "user_id") \/ ~DictHas(validated.dict, "username")
         THEN Raise("KeyError")
         ELSE Ok(service_ticket_data(self, validated.dict, service_name, t1, t2, n))

\* get_ticket_info reporting the issue time as the expiry
get_ticket_info_issued_as_expiry(self, log, ticket) ==
    LET ticket_data == DecodeTicket(self, log, ticket) IN
    IF ~ticket_data.ok THEN None
    ELSE IF ~IsDict(ticket_data) THEN None
    ELSE PyDict(<< << "username", DictGet(ticket_data.value, "username", None) >>,
                   << "service_name", DictGet(ticket_data.value, "service_name", None) >>,
                   << "issued_at", DictGet(ticket_data.value, "issued_at", None) >>,
                   << "expires_at", DictGet(ticket_data.value, "issued_at", None) >>,
                   << "permissions",
                      DictGet(ticket_data.value, "permissions", PyList(<<>>)) >> >>)

get_ticket_info(self, log, ticket) ==
    LET ticket_data == DecodeTicket(self, log, ticket) IN
    IF ~ticket_data.ok THEN None
    ELSE IF ~IsDict(ticket_data) THEN None
    ELSE PyDict(<< << "username", DictGet(ticket_data.value, "username", None) >>,
                   << "service_name", DictGet(ticket_data.value, "service_name", None) >>,
                   << "issued_at", DictGet(ticket_data.value, "issued_at", None) >>,
                   << "expires_at", DictGet(ticket_data.value, "expires_at", None) >>,
                   << "permissions",
                      DictGet(ticket_data.value, "permissions", PyList(<<>>)) >> >>)

(***************************************************************************)
(* app.py.                                                                 *)
(***************************************************************************)
\* jsonify(body), status
Response(status, body) == [status |-> status, body |-> body]

\* create_access_token(identity): a signed bearer token, valid eight hours
create_access_token(identity, clock) ==
    [jwt |-> [sub |-> identity, exp |-> clock + timedelta(8)]]

\* login telling an unknown username from a wrong password
login_user_not_found(data, gensalt, clock, threat_analysis) ==
    LET username == DictGet(data, "username", None)
        password == DictGet(data, "password", None)
        user == authenticate_user(username, password, gensalt, clock)
    IN  [response |->
            IF ~Truthy(username) \/ ~Truthy(password)
            THEN Response(400, [success |-> FALSE,
                                message |-> "Username and password are required"])
            ELSE IF _get_user_by_username(username, gensalt, clock) = None
            THEN Response(404, [success |-> FALSE, message |-> "User not found"])
            ELSE IF user = None
            THEN Response(401, [success |-> FALSE, message |-> "Invalid credentials"])
            ELSE Response(200, [success |-> TRUE, message |-> "Authentication successful",
                                user |-> [id |-> user.id, username |-> user.username,
                                          roles |-> user.roles],
                                token |-> create_access_token(user.id, clock)]),
         analysed |-> user # None, stored |-> user # None,
         authenticated |-> IF user = None THEN None ELSE user.id]

\* login(): data is the request's JSON object, threat_analysis what
\* claude_ai.analyze_authentication_attempt returns for this attempt.
\* analysed and stored tell whether the threat analysis and the vector
\* storage were reached, authenticated the id of the user
\* authenticate_user returned.
login(data, gensalt, clock, threat_analysis) ==
    LET username == DictGet(data, "username", None)
        password == DictGet(data, "password", None)
        user == authenticate_user(username, password, gensalt, clock)
        done(response, analysed, stored) ==
            [response |-> response, analysed |-> analysed, stored |-> stored,
             authenticated |-> IF user = None THEN None ELSE user.id]
    IN  IF ~Truthy(username) \/ ~Truthy(password)
        THEN done(Response(400, [success |-> FALSE,
                                 message |-> "Username and password are required"]),
                  FALSE, FALSE)
        ELSE IF user = None
        THEN done(Response(401, [success |-> FALSE, message |-> "Invalid credentials"]),
                  FALSE, FALSE)
        ELSE IF DOMAIN threat_analysis # {"dict"}
        THEN done(Response(500, [success |-> FALSE, message |-> "Internal server error"]),
                  TRUE, FALSE)
        ELSE IF DictGet(threat_analysis.dict, "threat_level", PyStr("low")) = PyStr("high")
        THEN done(Response(403, [success |-> FALSE,
                       message |-> "Authentication blocked due to security concerns"]),
                  TRUE, FALSE)
        ELSE done(Response(200, [success |-> TRUE,
                                 message |-> "Authentication successful",
                                 user |-> [id |-> user.id, username |-> user.username,
                                           roles |-> user.roles],
                                 token |-> create_access_token(user.id, clock)]),
                  TRUE, TRUE)

\* @jwt_required() that lets every request through under the identity "1"
jwt_required_absent(bearer, clock) == Ok(PyStr("1"))

\* @jwt_required() and get_jwt_identity(): the identity of a bearer token
\* that create_access_token made and that has not expired; the request is
\* answered without entering the handler otherwise
jwt_required(bearer, clock) ==
    IF bearer = None THEN Raise("Missing Authorization Header")
    ELSE IF DOMAIN bearer # {"jwt"} THEN Raise("Signature verification failed")
    ELSE IF clock >= bearer.jwt.exp THEN Raise("Token has expired")
    ELSE Ok(bearer.jwt.sub)

\* request_tgt up to the encryption: the dict generate_tgt seals, or the
\* response that ends the request.  data is request.get_json().
request_tgt(self, bearer, data, t1, t2, n) ==
    LET user_id == jwt_required(bearer, t1) IN
    IF ~user_id.ok THEN Raise(Response(401, [msg |-> user_id.error]))
    ELSE IF DOMAIN data # {"dict"}
    THEN Raise(Response(500, [error |-> "Failed to generate TGT"]))
    ELSE Ok(tgt_data(self, user_id.value, DictGet(data.dict, "username", None),
                     t1, t2, n))

\* the dict a validated TGT gives, or the response to the failure
TicketOrResponse(generated) ==
    IF generated.ok THEN generated
    ELSE Raise(Response(500, [error |-> "Failed to generate service ticket"]))

\* request_service_ticket up to the encryption: the dict
\* generate_service_ticket seals, or the response that ends the request
request_service_ticket(self, log, data, t0, t1, t2, n) ==
    IF DOMAIN data # {"dict"}
    THEN Raise(Response(500, [error |-> "Failed to generate service ticket"]))
    ELSE IF \/ ~Truthy(DictGet(data.dict, "serviceName", None))
            \/ ~Truthy(DictGet(data.dict, "tgt", None))
    THEN Raise(Response(400, [error |-> "Service name and TGT are required"]))
    ELSE TicketOrResponse(
             generate_service_ticket(self, log, DictItem(data.dict, "tgt").chars,
                                     DictItem(data.dict, "serviceName"), t0, t1, t2, n))

\* access_resource answering every request with the resource
access_resource_unchecked(self, log, clock, resource_id, service_ticket) ==
    Response(200, [resource_id |-> resource_id,
                   data |-> << "Protected data for resource ", resource_id >>,
                   accessed_at |-> isoformat(clock)])

\* access_resource: service_ticket is request.headers.get('Service-Ticket')
access_resource(self, log, clock, resource_id, service_ticket) ==
    IF ~Truthy(service_ticket)
    THEN Response(401, [error |-> "Service ticket required"])
    ELSE IF ~validate_service_ticket(self, log, clock, service_ticket.chars)
    THEN Response(403, [error |-> "Invalid service ticket"])
    ELSE Response(200, [resource_id |-> resource_id,
                        data |-> << "Protected data for resource ", resource_id >>,
                        accessed_at |-> isoformat(clock)])

\* the history after login has returned: the id authenticate_user returned
\* a user for, and the token of a 200 response
LoggedIn(history, result) ==
    [tokens |-> history.tokens \cup
                  (IF result.response.status = 200
                   THEN { result.response.body.token } ELSE {}),
     authenticated |-> history.authenticated \cup
                  (IF result.analysed THEN { result.authenticated } ELSE {})]

(***************************************************************************)
(* State.                                                                  *)
(***************************************************************************)
VARIABLES
    now,        \* the wall clock datetime.now() reads, in hours
    self,       \* the KerberosAuth instance kerberos_auth of app.py
    fernetLog,  \* the Fernet.encrypt calls made so far, by any key holder
    draws,      \* how many random values have been drawn
    last,       \* the call that has just returned, with its arguments and result
    hashed,     \* what hash_password has returned, with the password hashed
    http        \* what the HTTP layer has done: the bearer tokens login has
                \* returned and the ids authenticate_user returned a user for

vars == << now, self, fernetLog, draws, last, hashed, http >>

Idle == [op |-> "idle"]

\* the sealed record of one encrypt_data call by this instance
Sealed(data, ts, iv) ==
    [key |-> self.crypto_utils._fernet_key, ts |-> ts, iv |-> iv, data |-> data]

\* the ticket text of a sealed record: base64.b64encode(...).decode('utf-8')
TicketOf(e) == b64encode(FernetEncrypt(e))

\* every ticket text sealed so far, under the master key or another
Tickets == { TicketOf(fernetLog[i]) : i \in 1..Len(fernetLog) }

\* the ticket texts generate_tgt and generate_service_ticket have returned
Issued ==
    { TicketOf(fernetLog[i]) :
        i \in { j \in 1..Len(fernetLog) :
                  fernetLog[j].key = self.crypto_utils._fernet_key } }

(***************************************************************************)
(* Inputs.                                                                 *)
(***************************************************************************)
Usernames == { PyStr("admin"), PyStr("guest"), PyStr("mallory") }
Passwords == { PyStr("admin123"), PyStr("guest123"), PyStr("wrong") }
\* (user_id, username) pairs generate_tgt is called with
TgtPrincipals == { << PyStr("1"), PyStr("admin") >>, << PyStr("3"), PyStr("guest") >> }
ServiceNames == { PyStr("reporting-api"), PyStr("file-server") }
Gensalts == { << g, g + 1, g + 2 >> : g \in 1..MaxSalt }
\* the JSON objects posted to /api/auth/login
LoginData ==
    { << << "username", u >>, << "password", p >> >> :
        u \in Usernames \cup { None, PyStr("") }, p \in Passwords \cup { None } }
    \cup { << >> }
\* what the threat analysis may return: a level, no level, or no object
ThreatAnalyses ==
    { PyDict(<< << "threat_level", PyStr("low") >> >>),
      PyDict(<< << "threat_level", PyStr("high") >> >>),
      PyDict(<< >>), PyList(<< >>) }
\* the two datetime.now() reads of one call fall in the same clock step or
\* in consecutive ones
Skews == { 0, TickHours }
\* texts that are no tickets: "!" and "QUJD"
Garbage == { << 33 >>, << 81, 85, 74, 68 >> }
TicketInputs == Tickets \cup Garbage
LastHour == StartHour + MaxTime

\* the environment of a process configured with another passphrase
ForeignEnv ==
    [KERBEROS_SECRET |-> "kerberos-secret-key", CRYPTO_SALT |-> "kerberos-salt",
     CRYPTO_PASSWORD |-> "another-password"]

\* the TGT a process holding another key has issued at StartHour, with
\* random draws of its own
ForeignTgt ==
    LET other == KerberosAuth(ForeignEnv) IN
    [key |-> other.crypto_utils._fernet_key, ts |-> StartHour, iv |-> 0,
     data |-> json_dumps(tgt_data(other, PyStr("1"), PyStr("admin"),
                                  StartHour, StartHour, 0))]

Init ==
    /\ now = StartHour
    /\ self = KerberosAuth(DefaultEnv)
    /\ fernetLog = << ForeignTgt >>
    /\ draws = 0
    /\ last = Idle
    /\ hashed = << >>
    /\ http = [tokens |-> {}, authenticated |-> {}]

(***************************************************************************)
(* Actions.  A call is made when the previous call's result has been       *)
(* taken (last = Idle); Return takes it.                                   *)
(***************************************************************************)
\* time passes
Tick ==
    /\ now + TickHours <= LastHour
    /\ now' = now + TickHours
    /\ last' = Idle
    /\ UNCHANGED << self, fernetLog, draws, hashed, http >>

\* the caller takes the result of the call
Return ==
    /\ last # Idle
    /\ last' = Idle
    /\ UNCHANGED << now, self, fernetLog, draws, hashed, http >>

AuthenticateUser(username, password, gensalt) ==
    /\ last = Idle
    /\ last' = [op |-> "authenticate_user", at |-> now,
                username |-> username, password |-> password,
                result |-> authenticate_user(username, password, gensalt, now)]
    /\ UNCHANGED << now, self, fernetLog, draws, hashed, http >>

\* POST /api/auth/login
Login(data, gensalt, threat_analysis) ==
    /\ last = Idle
    /\ last' = [op |-> "login", at |-> now, data |-> data,
                threat_analysis |-> threat_analysis,
                result |-> login(data, gensalt, now, threat_analysis)]
    /\ http' = LoggedIn(http, login(data, gensalt, now, threat_analysis))
    /\ Cardinality(http'.tokens) <= MaxTokens
    /\ UNCHANGED << now, self, fernetLog, draws, hashed >>

\* generate_tgt; the clock advances by skew between its two reads
GenerateTgt(user_id, username, skew) ==
    /\ last = Idle
    /\ Cardinality(Issued) < MaxTickets
    /\ now + skew <= LastHour
    /\ LET data == json_dumps(tgt_data(self, user_id, username, now, now + skew, draws + 1))
           e == Sealed(data, now + skew, draws + 2)
       IN  /\ fernetLog' = Append(fernetLog, e)
           /\ last' = [op |-> "generate_tgt", at |-> now,
                       user_id |-> user_id, username |-> username,
                       result |-> Ok(TicketOf(e))]
    /\ draws' = draws + 2
    /\ now' = now + skew
    /\ UNCHANGED << self, hashed, http >>

\* generate_service_ticket: raises, or seals and returns a service ticket,
\* while fewer than cap tickets have been issued
GenerateServiceTicketUpTo(cap, tgt, service_name, skew) ==
    /\ last = Idle
    /\ LET r == generate_service_ticket(self, fernetLog, tgt, service_name,
                                        now, now, now + skew, draws + 1)
       IN  IF ~r.ok
           THEN /\ skew = 0
                /\ last' = [op |-> "generate_service_ticket", at |-> now, tgt |-> tgt,
                            service_name |-> service_name, result |-> r]
                /\ UNCHANGED << now, self, fernetLog, draws, hashed, http >>
           ELSE /\ Cardinality(Issued) < cap
                /\ now + skew <= LastHour
                /\ LET e == Sealed(json_dumps(r.value), now + skew, draws + 2)
                   IN  /\ fernetLog' = Append(fernetLog, e)
                       /\ last' = [op |-> "generate_service_ticket", at |-> now,
                                   tgt |-> tgt, service_name |-> service_name,
                                   result |-> Ok(TicketOf(e))]
                /\ draws' = draws + 2
                /\ now' = now + skew
                /\ UNCHANGED << self, hashed, http >>

GenerateServiceTicket(tgt, service_name, skew) ==
    GenerateServiceTicketUpTo(MaxTickets, tgt, service_name, skew)

ValidateServiceTicket(service_ticket) ==
    /\ last = Idle
    /\ last' = [op |-> "validate_service_ticket", at |-> now,
                ticket |-> service_ticket,
                result |-> validate_service_ticket(self, fernetLog, now, service_ticket)]
    /\ UNCHANGED << now, self, fernetLog, draws, hashed, http >>

GetTicketInfo(ticket) ==
    /\ last = Idle
    /\ last' = [op |-> "get_ticket_info", at |-> now, ticket |-> ticket,
                result |-> get_ticket_info(self, fernetLog, ticket)]
    /\ UNCHANGED << now, self, fernetLog, draws, hashed, http >>

Next ==
    \/ Tick
    \/ Return
    \/ \E p \in TgtPrincipals, d \in Skews : GenerateTgt(p[1], p[2], d)
    \/ /\ last = Idle
       /\ \E t \in TicketInputs, s \in ServiceNames, d \in Skews :
              GenerateServiceTicket(t, s, d)
    \/ /\ last = Idle
       /\ \E t \in TicketInputs : ValidateServiceTicket(t)
    \/ /\ last = Idle
       /\ \E t \in TicketInputs : GetTicketInfo(t)

Spec == Init /\ [][Next]_vars

\* authentication alone
NextAuth ==
    \/ Tick
    \/ Return
    \/ \E u \in Usernames, p \in Passwords, g \in Gensalts : AuthenticateUser(u, p, g)
    \/ \E d \in LoginData, g \in Gensalts, a \in ThreatAnalyses : Login(d, g, a)

SpecAuth == Init /\ [][NextAuth]_vars

\* single-byte substitutions of issued tickets
TamperBytes == { B64Char(v) : v \in 0..63 } \cup { 45, 95, PadChar, 33 }
Tampered(t) == { [t EXCEPT ![i] = c] : i \in 1..Len(t), c \in TamperBytes } \ { t }
TamperedInputs == Issued \cup UNION { Tampered(t) : t \in Issued }

\* issuing, and every operation on tickets with one byte changed
NextTamper ==
    \/ Return
    \/ GenerateTgt(PyStr("1"), PyStr("admin"), 0)
    \/ /\ last = Idle
       /\ \E t \in TamperedInputs : GenerateServiceTicket(t, PyStr("reporting-api"), 0)
    \/ /\ last = Idle
       /\ \E t \in TamperedInputs : ValidateServiceTicket(t)
    \/ /\ last = Idle
       /\ \E t \in TamperedInputs : GetTicketInfo(t)

SpecTamper == Init /\ [][NextTamper]_vars

\* passwords to hash: "p", "p" followed by a NUL, "q", and a lone surrogate
HashPasswords ==
    { PyChars(<< 112 >>), PyChars(<< 112, 0 >>), PyChars(<< 113 >>),
      PyChars(<< 55296 >>) }
\* the salt argument: left out, or given
HashSalts == { None, PyBytes(<< 1 >>) }

\* crypto_utils.hash_password(password, salt)
HashPassword(password, salt) ==
    /\ last = Idle
    /\ Len(hashed) < MaxHashes
    /\ salt = None => draws < MaxHashes
    /\ LET r == hash_password(password, salt, draws + 1) IN
       /\ last' = [op |-> "hash_password", password |-> password, salt |-> salt,
                   result |-> r]
       /\ hashed' = IF r.ok
                     THEN Append(hashed, [password |-> password, salt_arg |-> salt,
                                          password_hash |-> r.value[1],
                                          salt |-> r.value[2]])
                     ELSE hashed
    /\ draws' = IF salt = None THEN draws + 1 ELSE draws
    /\ UNCHANGED << now, self, fernetLog, http >>

\* crypto_utils.verify_password(password, h, s) for an (h, s) that
\* hash_password returned
VerifyPassword(password, i) ==
    /\ last = Idle
    /\ last' = [op |-> "verify_password", password |-> password, of |-> hashed[i],
                result |-> verify_password(password, hashed[i].password_hash,
                                           hashed[i].salt)]
    /\ UNCHANGED << now, self, fernetLog, draws, hashed, http >>

NextHash ==
    \/ Return
    \/ \E p \in HashPasswords, s \in HashSalts : HashPassword(p, s)
    \/ \E p \in HashPasswords, i \in 1..Len(hashed) : VerifyPassword(p, i)

SpecHash == Init /\ [][NextHash]_vars

\* an envelope text, as generate_tgt seals it
EnvelopeText ==
    json_dumps(tgt_data(KerberosAuth(DefaultEnv), PyStr("1"), PyStr("admin"),
                        StartHour, StartHour, 0))
\* texts that are no envelope with an expires_at timestamp: "{}",
\* {"expires_at": "soon"}, {"expires_at": null}, null, and "h", no JSON
NonEnvelopeTexts ==
    { json_dumps(<< >>),
      json_dumps(<< << "expires_at", PyStr("soon") >> >>),
      json_dumps(<< << "expires_at", None >> >>),
      [jsonv |-> JsonValue(None)],
      PyChars(<< 104 >>) }
\* the texts given to encrypt_data: also a text beyond ASCII and a lone
\* surrogate
PlainTexts ==
    { EnvelopeText } \cup NonEnvelopeTexts
      \cup { PyChars(<< 233, 8364 >>), PyChars(<< 55296 >>) }

\* the tokens encrypt_data has returned, under any key
SealedTokens == { FernetEncrypt(fernetLog[i]) : i \in 1..Len(fernetLog) }
\* "A": no base64 text
NotBase64 == << 65 >>

\* crypto_utils.encrypt_data(data)
EncryptData(data) ==
    /\ last = Idle
    /\ Len(fernetLog) <= MaxSeals
    /\ LET r == encrypt_data(self.crypto_utils, data, now, draws + 1) IN
       /\ last' = [op |-> "encrypt_data", data |-> data, result |-> r]
       /\ fernetLog' = IF r.ok
                        THEN Append(fernetLog,
                                    Sealed(str_encode(data).value, now, draws + 1))
                        ELSE fernetLog
       /\ draws' = IF r.ok THEN draws + 1 ELSE draws
    /\ UNCHANGED << now, self, hashed, http >>

\* decrypt_data deriving the key anew, from another passphrase, when the
\* token does not open
DecryptData_rekeying(encrypted_data) ==
    /\ last = Idle
    /\ last' = [op |-> "decrypt_data", token |-> encrypted_data,
                result |-> decrypt_data(self.crypto_utils, fernetLog, encrypted_data)]
    /\ self' = IF last'.result.ok THEN self ELSE KerberosAuth(ForeignEnv)
    /\ UNCHANGED << now, fernetLog, draws, hashed, http >>

\* crypto_utils.decrypt_data(encrypted_data)
DecryptData(encrypted_data) ==
    /\ last = Idle
    /\ last' = [op |-> "decrypt_data", token |-> encrypted_data,
                result |-> decrypt_data(self.crypto_utils, fernetLog, encrypted_data)]
    /\ UNCHANGED << now, self, fernetLog, draws, hashed, http >>

\* sealing texts, opening tokens, and validating what is no ticket
NextSeal ==
    \/ Return
    \/ \E d \in PlainTexts : EncryptData(d)
    \/ /\ last = Idle
       /\ \E t \in SealedTokens \cup Garbage : DecryptData(t)
    \/ /\ last = Idle
       /\ \E t \in Tickets \cup SealedTokens \cup Garbage \cup { NotBase64 } :
             ValidateServiceTicket(t)

SpecSeal == Init /\ [][NextSeal]_vars

\* an issued ticket with its first or last character replaced by "A", "+"
\* or "/"
Altered(t) == { [t EXCEPT ![i] = c] : i \in { 1, Len(t) }, c \in { 65, 43, 47 } } \ { t }
\* what a caller may present as a TGT or a ticket: sealed tickets of any key,
\* altered tickets, and strings that decode to nothing
PresentedInputs ==
    Tickets \cup UNION { Altered(t) : t \in Issued } \cup Garbage \cup { NotBase64 }

\* issuing over time, and every operation on what may be presented
NextReject ==
    \/ Tick
    \/ Return
    \/ GenerateTgt(PyStr("1"), PyStr("admin"), 0)
    \/ /\ last = Idle
       /\ \E t \in PresentedInputs : GenerateServiceTicket(t, PyStr("reporting-api"), 0)
    \/ /\ last = Idle
       /\ \E t \in PresentedInputs : ValidateServiceTicket(t)
    \/ /\ last = Idle
       /\ \E t \in PresentedInputs : GetTicketInfo(t)
    \/ \E u \in Usernames \cup { PyList(<< PyStr("admin") >>) },
          p \in Passwords \cup { None } :
          AuthenticateUser(u, p, << 1, 2, 3 >>)

SpecReject == Init /\ [][NextReject]_vars

\* every operation of KerberosAuth and of its CryptoUtils, succeeding and
\* failing
NextFrame ==
    \/ NextReject
    \/ \E d \in { EnvelopeText, PyChars(<< 55296 >>) } : EncryptData(d)
    \/ /\ last = Idle
       /\ \E t \in SealedTokens \cup Garbage : DecryptData(t)

SpecFrame == Init /\ [][NextFrame]_vars

\* the environment of a process configured with another salt
OtherSaltEnv ==
    [KERBEROS_SECRET |-> "kerberos-secret-key", CRYPTO_SALT |-> "another-salt",
     CRYPTO_PASSWORD |-> "kerberos-password"]

\* the configurations a second process may run with
PeerEnvs == { DefaultEnv, ForeignEnv, OtherSaltEnv }

\* validate_service_ticket called on a second KerberosAuth instance, built
\* in a process whose environment is env
ValidateElsewhere(env, service_ticket) ==
    /\ last = Idle
    /\ last' = [op |-> "validate_elsewhere", at |-> now, env |-> env,
                ticket |-> service_ticket,
                result |-> validate_service_ticket(KerberosAuth(env), fernetLog, now,
                                                   service_ticket)]
    /\ UNCHANGED << now, self, fernetLog, draws, hashed, http >>

\* issuing and validating in one process, validating in a second one
NextPeer ==
    \/ NextReject
    \/ /\ last = Idle
       /\ \E env \in PeerEnvs, t \in PresentedInputs : ValidateElsewhere(env, t)

SpecPeer == Init /\ [][NextPeer]_vars

\* POST /api/kerberos/tgt with the bearer token and JSON body of the
\* request; the clock advances by skew between the reads of generate_tgt
RequestTgt(bearer, data, skew) ==
    /\ last = Idle
    /\ LET r == request_tgt(self, bearer, data, now, now + skew, draws + 1)
       IN  IF ~r.ok
           THEN /\ skew = 0
                /\ last' = [op |-> "request_tgt", at |-> now, bearer |-> bearer,
                            data |-> data, response |-> r.error]
                /\ UNCHANGED << now, self, fernetLog, draws, hashed, http >>
           ELSE /\ Cardinality(Issued) < MaxTickets
                /\ now + skew <= LastHour
                /\ LET e == Sealed(json_dumps(r.value), now + skew, draws + 2)
                   IN  /\ fernetLog' = Append(fernetLog, e)
                       /\ last' = [op |-> "request_tgt", at |-> now,
                                   bearer |-> bearer, data |-> data,
                                   response |->
                                     Response(200,
                                        [tgt |-> TicketOf(e),
                                         expiry |-> isoformat(now + skew + timedelta(8))])]
                /\ draws' = draws + 2
                /\ now' = now + skew
                /\ UNCHANGED << self, hashed, http >>

\* POST /api/kerberos/service-ticket with the JSON body of the request
RequestServiceTicket(data, skew) ==
    /\ last = Idle
    /\ LET r == request_service_ticket(self, fernetLog, data, now, now, now + skew,
                                       draws + 1)
       IN  IF ~r.ok
           THEN /\ skew = 0
                /\ last' = [op |-> "request_service_ticket", at |-> now,
                            data |-> data, response |-> r.error]
                /\ UNCHANGED << now, self, fernetLog, draws, hashed, http >>
           ELSE /\ Cardinality(Issued) < MaxTickets
                /\ now + skew <= LastHour
                /\ LET e == Sealed(json_dumps(r.value), now + skew, draws + 2)
                   IN  /\ fernetLog' = Append(fernetLog, e)
                       /\ last' = [op |-> "request_service_ticket", at |-> now,
                                   data |-> data,
                                   response |->
                                     Response(200,
                                        [serviceTicket |-> TicketOf(e),
                                         expiry |-> isoformat(now + skew + timedelta(2))])]
                /\ draws' = draws + 2
                /\ now' = now + skew
                /\ UNCHANGED << self, hashed, http >>

\* GET /api/resources/<resource_id> with the request's Service-Ticket header
AccessResource(resource_id, service_ticket) ==
    /\ last = Idle
    /\ last' = [op |-> "access_resource", at |-> now, resource_id |-> resource_id,
                service_ticket |-> service_ticket,
                response |-> access_resource(self, fernetLog, now, resource_id,
                                             service_ticket)]
    /\ UNCHANGED << now, self, fernetLog, draws, hashed, http >>

\* a bearer token made without the application's JWT secret
ForgedToken == [unverified |-> [sub |-> PyStr("1"), exp |-> LastHour + 1]]
\* what a client may send as bearer token: nothing, a token made without the
\* secret, or a token login returned
Bearers == http.tokens \cup { None, ForgedToken }
\* the credentials posted to /api/auth/login
HttpLogins ==
    { << << "username", PyStr("admin") >>, << "password", PyStr("admin123") >> >>,
      << << "username", PyStr("guest") >>, << "password", PyStr("guest123") >> >>,
      << << "username", PyStr("guest") >>, << "password", PyStr("wrong") >> >> }
HttpThreats ==
    { PyDict(<< << "threat_level", PyStr("low") >> >>),
      PyDict(<< << "threat_level", PyStr("high") >> >>) }
\* the JSON bodies posted to /api/kerberos/tgt: a username, none, no object
TgtBodies ==
    { PyDict(<< << "username", PyStr("admin") >> >>),
      PyDict(<< << "username", PyStr("guest") >> >>),
      None }
\* an issued ticket with its last character replaced by "+", and with its
\* first character replaced by "A"
AlteredEnds(t) == { [t EXCEPT ![Len(t)] = 43], [t EXCEPT ![1] = 65] } \ { t }
\* what a client may present as a ticket in a header or a JSON body:
\* nothing, the empty string, or a text: a sealed ticket of any key, an
\* altered ticket, a string that decodes to nothing
PresentedTexts ==
    { None, PyChars(<< >>), PyChars(NotBase64) }
    \cup { PyChars(t) : t \in Tickets \cup UNION { AlteredEnds(t) : t \in Issued } }
\* the JSON bodies posted to /api/kerberos/service-ticket
ServiceTicketBodies ==
    { PyDict(<< << "serviceName", PyStr("reporting-api") >>, << "tgt", t >> >>) :
        t \in PresentedTexts }
    \cup { PyDict(<< << "tgt", PyChars(TicketOf(ForeignTgt)) >> >>), None }

\* logging in and requesting TGTs
NextTgt ==
    \/ Tick
    \/ Return
    \/ \E d \in HttpLogins, a \in HttpThreats : Login(d, << 1, 2, 3 >>, a)
    \/ /\ last = Idle
       /\ \E b \in Bearers, d \in TgtBodies : RequestTgt(b, d, 0)

SpecTgt == Init /\ [][NextTgt]_vars

\* issuing tickets over time, and requesting resources with whatever may be
\* presented
NextResource ==
    \/ NextReject
    \/ /\ last = Idle
       /\ \E t \in PresentedTexts : AccessResource(PyStr("42"), t)

SpecResource == Init /\ [][NextResource]_vars

\* the four endpoints, called by clients that hold what the endpoints have
\* returned and know neither the master key nor the JWT secret
NextHttp ==
    \/ Tick
    \/ Return
    \/ \E d \in { d \in HttpLogins : d[1][2] = PyStr("admin") \/ d[2][2] = PyStr("wrong") } :
          Login(d, << 1, 2, 3 >>, PyDict(<< << "threat_level", PyStr("low") >> >>))
    \/ /\ last = Idle
       /\ \E b \in Bearers :
              RequestTgt(b, PyDict(<< << "username", PyStr("admin") >> >>), 0)
    \/ /\ last = Idle
       /\ \E d \in ServiceTicketBodies : RequestServiceTicket(d, 0)
    \/ /\ last = Idle
       /\ \E t \in PresentedTexts : AccessResource(PyStr("42"), t)

SpecHttp == Init /\ [][NextHttp]_vars

\* one TGT, and service tickets issued from whatever has been issued
NextChain ==
    \/ Tick
    \/ Return
    \/ Len(fernetLog) = 1 /\ GenerateTgt(PyStr("1"), PyStr("admin"), 0)
    \/ /\ last = Idle
       /\ \E t \in Issued \cup Garbage, d \in Skews :
              GenerateServiceTicketUpTo(MaxChain, t, PyStr("reporting-api"), d)
    \/ /\ last = Idle
       /\ \E t \in Issued : ValidateServiceTicket(t)

SpecChain == Init /\ [][NextChain]_vars

\* User.from_dict of a stored principal whose is_active is False
Deactivated(user) == [user EXCEPT !.is_active = FALSE]

\* what the lookup of a credential store that holds deactivated principals
\* may return: the principals of the mock store, active or deactivated
StoredUsers ==
    LET users == mock_users(<< 1, 2, 3 >>, now) IN
    { users[name] : name \in DOMAIN users }
    \cup { Deactivated(users[name]) : name \in DOMAIN users }

\* authenticate_user with a credential store whose lookup returns user
AuthenticateStoredUser(user, password) ==
    /\ last = Idle
    /\ last' = [op |-> "authenticate_user", at |-> now,
                username |-> user.username, password |-> password,
                found |-> user,
                result |-> VerifiedOrNone(user, password)]
    /\ UNCHANGED << now, self, fernetLog, draws, hashed, http >>

\* authentication against the mock store and against a store with
\* deactivated principals
NextStore ==
    \/ Tick
    \/ Return
    \/ \E u \in Usernames, p \in Passwords \cup { None } :
          AuthenticateUser(u, p, << 1, 2, 3 >>)
    \/ /\ last = Idle
       /\ \E user \in StoredUsers, p \in Passwords \cup { None } :
              AuthenticateStoredUser(user, p)

SpecStore == Init /\ [][NextStore]_vars

\* n bytes b
Fill(b, n) == [i \in 1..n |-> b]
\* byte strings to pad: empty, short, one block less a byte, a whole block,
\* a block and a byte
PadInputs ==
    { << >>, << 104, 105 >>, Fill(97, AES_BLOCK_SIZE - 1), Fill(97, AES_BLOCK_SIZE),
      Fill(98, AES_BLOCK_SIZE + 1) }
\* block sequences the decryptor may return: padded data, and blocks whose
\* last byte is 0, is beyond the block, is beyond the data, or is n without
\* the last n bytes being n
DecryptedInputs ==
    { _pad_data(d) : d \in PadInputs }
      \cup { Append(Fill(97, AES_BLOCK_SIZE - 1), b) : b \in { 0, AES_BLOCK_SIZE + 1, 200 } }
      \cup { Fill(97, AES_BLOCK_SIZE) \o Append(Fill(98, AES_BLOCK_SIZE - 1), 2 * AES_BLOCK_SIZE + 1),
             Fill(97, AES_BLOCK_SIZE - 3) \o << 1, 2, 3 >> }
\* texts to encrypt and 32-byte keys
AesPlaintexts == { PyChars(<< >>), PyChars(<< 104, 233 >>), PyChars(Fill(97, AES_BLOCK_SIZE)) }
AesKeys == { [aes_key |-> 1], [aes_key |-> 2] }
\* the ivs drawn so far and the ciphertexts made with them
AesIvs == { [token_bytes |-> n] : n \in 1..draws }
AesCiphertexts ==
    { aes_encrypt(p, k, iv).value[1] : p \in AesPlaintexts, k \in AesKeys, iv \in AesIvs }

PadData(data) ==
    /\ last = Idle
    /\ last' = [op |-> "_pad_data", data |-> data, result |-> _pad_data(data)]
    /\ UNCHANGED << now, self, fernetLog, draws, hashed, http >>

UnpadData(padded_data) ==
    /\ last = Idle
    /\ last' = [op |-> "_unpad_data", padded_data |-> padded_data,
                result |-> _unpad_data(padded_data)]
    /\ UNCHANGED << now, self, fernetLog, draws, hashed, http >>

AesEncrypt(plaintext, key) ==
    /\ last = Idle
    /\ draws < MaxSeals
    /\ last' = [op |-> "aes_encrypt", plaintext |-> plaintext, key |-> key,
                result |-> aes_encrypt(plaintext, key, [token_bytes |-> draws + 1])]
    /\ draws' = draws + 1
    /\ UNCHANGED << now, self, fernetLog, hashed, http >>

AesDecrypt(ciphertext, key, iv, other_blocks) ==
    /\ last = Idle
    /\ last' = [op |-> "aes_decrypt", ciphertext |-> ciphertext, key |-> key, iv |-> iv,
                decrypted |-> AesCbcDecrypt(ciphertext, key, iv, other_blocks),
                result |-> aes_decrypt(ciphertext, key, iv, other_blocks)]
    /\ UNCHANGED << now, self, fernetLog, draws, hashed, http >>

\* the raw AES-CBC path
NextPad ==
    \/ Return
    \/ \E d \in PadInputs : PadData(d)
    \/ \E d \in DecryptedInputs \cup { << >> } : UnpadData(d)
    \/ \E p \in AesPlaintexts, k \in AesKeys : AesEncrypt(p, k)
    \/ \E c \in AesCiphertexts, k \in AesKeys, iv \in AesIvs, o \in DecryptedInputs :
          AesDecrypt(c, k, iv, o)

SpecPad == Init /\ [][NextPad]_vars

(***************************************************************************)
(* Properties.                                                             *)
(***************************************************************************)
\* what a ticket text decodes to under the master key
Decoded(t) == DecodeTicket(self, fernetLog, t)
\* the ticket decrypts and decodes to an envelope with an expiry
WellFormed(t) == Decoded(t).ok /\ IsDict(Decoded(t)) /\ ExpiresAt(Decoded(t).value).ok
ExpiryOf(t) == ExpiresAt(Decoded(t).value).value
Valid(t) == validate_service_ticket(self, fernetLog, now, t)
InvalidTgt == Raise("ValueError: Invalid TGT")
\* the sealed records of the tickets this instance has issued
IssuedRecords ==
    { e \in { fernetLog[i] : i \in 1..Len(fernetLog) } :
        e.key = self.crypto_utils._fernet_key }
\* those of them generate_service_ticket has sealed
ServiceTicketRecords ==
    { e \in IssuedRecords :
        \E k \in 1..Len(e.data.json) : e.data.json[k][1] = "service_name" }
\* the expires_at written into a sealed record
SealedExpiry(e) == ExpiresAt(json_loads(e.data).value).value
\* the principals of the mock store with their passwords
StoredPasswords == [admin |-> "admin123", user |-> "user123", guest |-> "guest123"]
Credentialed(username, password) ==
    /\ DOMAIN username = {"str"}
    /\ username.str \in DOMAIN StoredPasswords
    /\ password = PyStr(StoredPasswords[username.str])
\* s differs from an issued ticket in exactly one byte
IsModified(s) ==
    /\ s \notin Issued
    /\ \E t \in Issued :
          /\ Len(s) = Len(t)
          /\ Cardinality({ i \in 1..Len(t) : s[i] # t[i] }) = 1

\* C1: a ticket that decrypts and decodes is refused by validate_service_ticket
\* whenever the clock is past its expires_at.
C1_ExpiredTicketRefused ==
    (/\ last.op = "validate_service_ticket"
     /\ WellFormed(last.ticket)
     /\ last.at > ExpiryOf(last.ticket))
    => last.result = FALSE

C1_Witness ==
    /\ last.op = "validate_service_ticket"
    /\ last.ticket \in Issued
    /\ WellFormed(last.ticket)
    /\ last.at > ExpiryOf(last.ticket)
    /\ last.result = FALSE

\* C2 as claimed: validate_service_ticket returns True exactly when the ticket
\* decrypts and decodes and expires_at > now, so False at now = expires_at.
C2_TrueIffBeforeExpiry ==
    last.op = "validate_service_ticket"
    => (last.result = TRUE
        <=> (WellFormed(last.ticket) /\ ExpiryOf(last.ticket) > last.at))

\* C2 amended: validate_service_ticket returns True exactly when the ticket
\* decrypts and decodes and expires_at >= now, so True at now = expires_at.
C2_TrueIffNotPastExpiry ==
    last.op = "validate_service_ticket"
    => (last.result = TRUE
        <=> (WellFormed(last.ticket) /\ ExpiryOf(last.ticket) >= last.at))

C2_Witness ==
    /\ last.op = "validate_service_ticket"
    /\ WellFormed(last.ticket)
    /\ ExpiryOf(last.ticket) = last.at
    /\ last.result = TRUE

\* C3 as claimed: generate_service_ticket fails with the invalid-TGT error
\* whenever the TGT does not decode or its expires_at <= now.
C3_FailsAtOrPastExpiry ==
    (/\ last.op = "generate_service_ticket"
     /\ (~WellFormed(last.tgt) \/ ExpiryOf(last.tgt) <= last.at))
    => last.result = InvalidTgt

\* C3 amended: generate_service_ticket fails with the invalid-TGT error and
\* seals no ticket whenever the TGT does not decode or its expires_at < now;
\* it issues a service ticket only from a TGT with expires_at >= now.
C3_FailsPastExpiry ==
    /\ [](last.op = "generate_service_ticket"
          => /\ last.result = InvalidTgt
                   <=> (~WellFormed(last.tgt) \/ ExpiryOf(last.tgt) < last.at)
             /\ last.result.ok
                   <=> (WellFormed(last.tgt) /\ ExpiryOf(last.tgt) >= last.at))
    /\ [][(last'.op = "generate_service_ticket" /\ ~last'.result.ok)
             => fernetLog' = fernetLog]_vars

C3_Witness ==
    /\ last.op = "generate_service_ticket"
    /\ WellFormed(last.tgt)
    /\ ExpiryOf(last.tgt) < last.at
    /\ last.result = InvalidTgt

\* C4 as claimed: every ticket text validate_service_ticket or
\* generate_service_ticket accepts is one generate_tgt or
\* generate_service_ticket returned; no altered text is accepted.
C4_AcceptedOnlyAsIssued ==
    /\ (last.op = "validate_service_ticket" /\ last.result = TRUE)
          => last.ticket \in Issued
    /\ (last.op = "generate_service_ticket" /\ last.result.ok)
          => last.tgt \in Issued

\* C5 as claimed: an issued ticket with any single byte changed is refused by
\* validate_service_ticket, get_ticket_info and generate_service_ticket.
C5_ChangedByteRefused ==
    /\ (last.op = "validate_service_ticket" /\ IsModified(last.ticket))
          => last.result = FALSE
    /\ (last.op = "get_ticket_info" /\ IsModified(last.ticket))
          => last.result = None
    /\ (last.op = "generate_service_ticket" /\ IsModified(last.tgt))
          => ~last.result.ok

\* C6: every call of validate_service_ticket on an issued ticket returns
\* True exactly when the clock has not passed the expires_at sealed in it;
\* no operation alters or removes a sealed record or the key, and the clock
\* never goes back, so a ticket turns from accepted to refused by the passage
\* of time alone and never turns back.
C6_Lifecycle ==
    /\ [](\A e \in IssuedRecords :
             (last.op = "validate_service_ticket" /\ last.ticket = TicketOf(e))
             => (last.result = TRUE <=> last.at <= SealedExpiry(e)))
    /\ [][/\ now' >= now
          /\ self' = self
          /\ Len(fernetLog') >= Len(fernetLog)
          /\ SubSeq(fernetLog', 1, Len(fernetLog)) = fernetLog]_vars

C6_Witness ==
    /\ last.op = "validate_service_ticket"
    /\ last.ticket \in Issued
    /\ last.at > ExpiryOf(last.ticket)
    /\ last.result = FALSE
    /\ \E t \in Issued : Valid(t)

\* C7: a service ticket generate_service_ticket has returned validates True
\* right after issuance and at any time before its expires_at, and False
\* once the clock is past its expires_at.
C7_ServiceTicketValidUntilExpiry ==
    /\ (last.op = "generate_service_ticket" /\ last.result.ok)
          => Valid(last.result.value)
    /\ \A e \in ServiceTicketRecords :
          (last.op = "validate_service_ticket" /\ last.ticket = TicketOf(e))
          => /\ last.at < SealedExpiry(e) => last.result = TRUE
             /\ last.at > SealedExpiry(e) => last.result = FALSE

C7_Witness ==
    \E e \in ServiceTicketRecords :
        /\ last.op = "validate_service_ticket"
        /\ last.ticket = TicketOf(e)
        /\ last.at > SealedExpiry(e)
        /\ last.result = FALSE

\* C8: the permissions of a service ticket generate_service_ticket returns
\* equal the permissions of the TGT it was issued from.
C8_PermissionsInherited ==
    (last.op = "generate_service_ticket" /\ last.result.ok)
    => DictGet(Decoded(last.result.value).value, "permissions", None)
         = DictGet(Decoded(last.tgt).value, "permissions", None)

C8_Witness ==
    /\ last.op = "generate_service_ticket"
    /\ last.result.ok
    /\ DictGet(Decoded(last.result.value).value, "permissions", None)
         = PyList(<< PyStr("read"), PyStr("write"), PyStr("execute") >>)

\* C9: authenticate_user returns the principal exactly when the store holds
\* the username and the password is that principal's; otherwise None.
C9_AuthenticatesIffCredentialed ==
    last.op = "authenticate_user"
    => IF Credentialed(last.username, last.password)
       THEN /\ last.result # None
            /\ last.result.username = last.username
            /\ bcrypt_checkpw(last.password.str, last.result.password_hash)
       ELSE last.result = None

C9_Witness ==
    /\ last.op = "authenticate_user"
    /\ last.username = PyStr("admin")
    /\ last.result # None

\* C10: a failed authentication looks the same for an unknown username and
\* for a known username with a wrong password: authenticate_user returns
\* None, and login answers as it answers the same request made under a
\* username the store does not hold, 401 'Invalid credentials'.
C10_UniformFailure ==
    /\ (last.op = "authenticate_user"
        /\ ~Credentialed(last.username, last.password))
          => last.result = None
    /\ (/\ last.op = "login"
        /\ Truthy(DictGet(last.data, "username", None))
        /\ Truthy(DictGet(last.data, "password", None))
        /\ ~Credentialed(DictGet(last.data, "username", None),
                         DictGet(last.data, "password", None)))
          => /\ last.result.response
                  = Response(401, [success |-> FALSE, message |-> "Invalid credentials"])
             /\ \A g \in Gensalts, a \in ThreatAnalyses :
                   last.result.response
                     = login(<< << "username", PyStr("nobody") >>,
                                << "password", DictGet(last.data, "password", None) >> >>,
                             g, last.at, a).response

C10_Witness ==
    /\ last.op = "login"
    /\ DictGet(last.data, "username", None) = PyStr("admin")
    /\ DictGet(last.data, "password", None) = PyStr("wrong")
    /\ last.result.response.status = 401

\* the envelope written into a sealed record, and one member of it
SealedEnvelope(e) == json_loads(e.data).value
SealedField(e, k) == DictGet(SealedEnvelope(e), k, None)
\* the sealed records of the TGTs this instance has issued
TgtRecords == IssuedRecords \ ServiceTicketRecords

\* C13: validate_service_ticket returns True for a TGT generate_tgt returned
\* whose expires_at is still ahead; for tickets of either kind, and whatever
\* service they name, it returns True before expires_at and False after.
C13_TgtValidates ==
    /\ \A e \in TgtRecords :
          (/\ last.op = "validate_service_ticket"
           /\ last.ticket = TicketOf(e)
           /\ last.at < SealedExpiry(e))
          => last.result = TRUE
    /\ \A e \in IssuedRecords :
          (last.op = "validate_service_ticket" /\ last.ticket = TicketOf(e))
          => /\ SealedExpiry(e) > last.at => last.result = TRUE
             /\ SealedExpiry(e) < last.at => last.result = FALSE

C13_Witness ==
    \E e \in TgtRecords :
        /\ last.op = "validate_service_ticket"
        /\ last.ticket = TicketOf(e)
        /\ ~DictHas(SealedEnvelope(e), "service_name")
        /\ last.at < SealedExpiry(e)
        /\ last.result = TRUE

\* C14: get_ticket_info returns, for every ticket issued under the master
\* key, expired or not, the view of the envelope as issued (username,
\* service_name, issued_at, expires_at, permissions), service_name being None
\* for a TGT; for a text that does not decrypt or decode it returns None.
C14_InfoIsEnvelopeAsIssued ==
    /\ \A e \in IssuedRecords :
          (last.op = "get_ticket_info" /\ last.ticket = TicketOf(e))
          => /\ last.result
                  = PyDict(<< << "username", SealedField(e, "username") >>,
                              << "service_name", SealedField(e, "service_name") >>,
                              << "issued_at", SealedField(e, "issued_at") >>,
                              << "expires_at", SealedField(e, "expires_at") >>,
                              << "permissions", SealedField(e, "permissions") >> >>)
             /\ e \in TgtRecords => DictItem(last.result.dict, "service_name") = None
             /\ e \in ServiceTicketRecords
                   => DictItem(last.result.dict, "service_name") \in ServiceNames
    /\ (last.op = "get_ticket_info" /\ ~Decoded(last.ticket).ok)
          => last.result = None

C14_Witness ==
    \E e \in TgtRecords :
        /\ last.op = "get_ticket_info"
        /\ last.ticket = TicketOf(e)
        /\ last.at > SealedExpiry(e)
        /\ last.result # None
        /\ DictItem(last.result.dict, "service_name") = None

\* C16 as claimed: every issued ticket has expires_at > issued_at and
\* expires_at - issued_at equal to the lifetime of its kind, 8 hours for a
\* TGT and 2 hours for a service ticket.
C16_LifetimeExact ==
    \A e \in IssuedRecords :
        LET issued_at == fromisoformat(SealedField(e, "issued_at")).value
            lifetime == IF e \in ServiceTicketRecords
                        THEN SERVICE_TICKET_LIFETIME_HOURS
                        ELSE TGT_LIFETIME_HOURS
        IN  /\ SealedExpiry(e) > issued_at
            /\ SealedExpiry(e) - issued_at = lifetime

\* C17: no two issued tickets carry the same session_key, and a service
\* ticket's session_key differs from that of the ticket it was issued from.
C17_SessionKeysDistinct ==
    /\ \A i, j \in 1..Len(fernetLog) :
          (/\ i # j
           /\ fernetLog[i] \in IssuedRecords
           /\ fernetLog[j] \in IssuedRecords)
          => SealedField(fernetLog[i], "session_key")
               # SealedField(fernetLog[j], "session_key")
    /\ (last.op = "generate_service_ticket" /\ last.result.ok)
          => DictGet(Decoded(last.result.value).value, "session_key", None)
               # DictGet(Decoded(last.tgt).value, "session_key", None)

C17_Witness ==
    /\ last.op = "generate_service_ticket"
    /\ last.result.ok
    /\ Cardinality(IssuedRecords) = 2
    /\ DOMAIN DictGet(Decoded(last.result.value).value, "session_key", None)
         = {"token_urlsafe"}

\* the principals the credential store holds
StorePrincipals ==
    LET store == mock_users(CHOOSE g \in Gensalts : TRUE, StartHour)
    IN  { [id |-> store[n].id, username |-> store[n].username, roles |-> store[n].roles] :
            n \in DOMAIN store }

\* C15 as claimed: the envelope of a TGT names no service, and its
\* permission list is derived from the roles of its principal: some
\* principal of the store, with another role set, is issued another list.
C15_PermissionsFromRoles ==
    last.op = "generate_tgt"
    => /\ ~DictHas(Decoded(last.result.value).value, "service_name")
       /\ \E p, q \in StorePrincipals :
             /\ p.id = last.user_id
             /\ q.roles # p.roles
             /\ DictItem(tgt_data(self, q.id, q.username, last.at, last.at, 0),
                         "permissions")
                  # DictItem(Decoded(last.result.value).value, "permissions")

\* C20: verify_password(q, h, s) for (h, s) = hash_password(p) is True exactly
\* when q is p; two hash_password calls without a salt argument use distinct
\* salts and give different hashes, even for the same password; calls with
\* the same password and the same explicit salt give the same hash.
C20_VerifiesOnlyThePassword ==
    /\ last.op = "verify_password" =>
          (last.result = TRUE <=> last.password = last.of.password)
    /\ \A i, j \in 1..Len(hashed) :
          /\ (i # j /\ hashed[i].salt_arg = None /\ hashed[j].salt_arg = None) =>
                /\ hashed[i].salt # hashed[j].salt
                /\ hashed[i].password_hash # hashed[j].password_hash
          /\ (/\ hashed[i].salt_arg # None
              /\ hashed[i].salt_arg = hashed[j].salt_arg
              /\ hashed[i].password = hashed[j].password) =>
                hashed[i].password_hash = hashed[j].password_hash

\* the encrypt_data calls made under the master key
MasterSeals ==
    { i \in 1..Len(fernetLog) : fernetLog[i].key = self.crypto_utils._fernet_key }

\* C18: decrypt_data(encrypt_data(e)) = e under the master key: the token
\* encrypt_data has just returned decrypts to the text given, every later
\* decrypt_data of a token sealed under the key returns the text sealed, and a
\* sealed envelope decodes from its ticket to the members written.
C18_RoundTrip ==
    /\ (last.op = "encrypt_data" /\ last.result.ok) =>
          decrypt_data(self.crypto_utils, fernetLog, last.result.value) = Ok(last.data)
    /\ \A i \in MasterSeals :
          /\ (last.op = "decrypt_data" /\ last.token = FernetEncrypt(fernetLog[i])) =>
                /\ last.result.ok
                /\ str_encode(last.result.value) = Ok(fernetLog[i].data)
          /\ "json" \in DOMAIN fernetLog[i].data =>
                Decoded(TicketOf(fernetLog[i])) = json_loads(fernetLog[i].data)

\* a text beyond ASCII has been sealed after another text and opened again
C18_Witness ==
    /\ last.op = "decrypt_data"
    /\ last.result = Ok(PyChars(<< 233, 8364 >>))
    /\ \E i \in MasterSeals :
          /\ last.token = FernetEncrypt(fernetLog[i])
          /\ \E j \in MasterSeals : j < i /\ fernetLog[j].data = EnvelopeText

\* C19: two encrypt_data calls on the same plaintext under the same key
\* return different tokens, and both tokens decrypt to that plaintext.
C19_FreshTokens ==
    /\ \A i, j \in 1..Len(fernetLog) :
          (/\ i # j
           /\ fernetLog[i].key = fernetLog[j].key
           /\ fernetLog[i].data = fernetLog[j].data) =>
             /\ FernetEncrypt(fernetLog[i]) # FernetEncrypt(fernetLog[j])
             /\ FernetDecrypt(fernetLog[i].key, fernetLog, FernetEncrypt(fernetLog[i]))
                  = FernetDecrypt(fernetLog[j].key, fernetLog, FernetEncrypt(fernetLog[j]))
             /\ FernetDecrypt(fernetLog[i].key, fernetLog, FernetEncrypt(fernetLog[i]))
                  = Ok(fernetLog[i].data)
    /\ (last.op = "encrypt_data" /\ last.result.ok) =>
          /\ last.result.value = FernetEncrypt(fernetLog[Len(fernetLog)])
          /\ \A i \in 1..(Len(fernetLog) - 1) :
                last.result.value # FernetEncrypt(fernetLog[i])

\* the same text has been sealed twice under the master key
C19_Witness ==
    /\ last.op = "encrypt_data"
    /\ last.result.ok
    /\ \E i \in MasterSeals :
          /\ i < Len(fernetLog)
          /\ fernetLog[i].data = fernetLog[Len(fernetLog)].data
          /\ str_encode(last.data) = Ok(fernetLog[i].data)

\* strings that are no ticket: no base64 text, base64 of what is no token,
\* a bare token, a token sealed under another key, and the base64 text of a
\* token sealed under the master key whose plaintext is no envelope with an
\* expires_at timestamp
NotTickets ==
    Garbage \cup { NotBase64 } \cup SealedTokens
      \cup { TicketOf(fernetLog[i]) :
               i \in { j \in 1..Len(fernetLog) :
                         \/ j \notin MasterSeals
                         \/ \E d \in NonEnvelopeTexts \cup { PyChars(<< 233, 8364 >>) } :
                               str_encode(d) = Ok(fernetLog[j].data) } }

\* C12: validate_service_ticket of a string that is no ticket returns False;
\* what it has returned is a boolean and never an error.
C12_NotATicketIsRefused ==
    last.op = "validate_service_ticket" =>
      /\ last.result \in BOOLEAN
      /\ last.ticket \in NotTickets => last.result = FALSE

\* the ticket text of a sealed JSON null has been refused, with a sealed
\* envelope in the log
C12_Witness ==
    /\ last.op = "validate_service_ticket"
    /\ last.result = FALSE
    /\ \E i, j \in MasterSeals :
          /\ last.ticket = TicketOf(fernetLog[i])
          /\ fernetLog[i].data = [jsonv |-> JsonValue(None)]
          /\ fernetLog[j].data = EnvelopeText

\* s, presented at time at, is undecodable, altered, sealed under another
\* key, or an issued ticket past its expires_at
Refusable(s, at) ==
    \/ s \in Garbage \cup { NotBase64 }
    \/ IsModified(s)
    \/ \E i \in (1..Len(fernetLog)) \ MasterSeals : s = TicketOf(fernetLog[i])
    \/ \E e \in IssuedRecords : s = TicketOf(e) /\ SealedExpiry(e) < at

\* C11 as claimed: generate_service_ticket fails with the one error
\* "Invalid TGT" for a TGT that is undecodable, altered, sealed under another
\* key or expired, validate_service_ticket returns False for each of them,
\* and validate_service_ticket, get_ticket_info and authenticate_user return
\* a value and never an error.
C11_OneErrorForEveryRefusal ==
    /\ (last.op = "generate_service_ticket" /\ Refusable(last.tgt, last.at))
          => last.result = InvalidTgt
    /\ (last.op = "validate_service_ticket" /\ Refusable(last.ticket, last.at))
          => last.result = FALSE
    /\ last.op = "validate_service_ticket" => last.result \in BOOLEAN
    /\ last.op = "get_ticket_info" =>
          (last.result = None \/ DOMAIN last.result = {"dict"})
    /\ last.op = "authenticate_user" =>
          (last.result = None \/ "password_hash" \in DOMAIN last.result)

\* C25 as claimed: the service ticket generate_service_ticket returns carries
\* the user_id and the username of the TGT, the service_name the caller
\* passed, and a new window: issued_at at the call, expires_at the
\* service-ticket lifetime after issued_at.
C25_ServiceTicketFromTgt ==
    (last.op = "generate_service_ticket" /\ last.result.ok) =>
      LET ticket == Decoded(last.result.value).value
          tgt == Decoded(last.tgt).value
      IN  /\ DictGet(ticket, "user_id", None) = DictGet(tgt, "user_id", None)
          /\ DictGet(ticket, "username", None) = DictGet(tgt, "username", None)
          /\ DictGet(ticket, "service_name", None) = last.service_name
          /\ DictGet(ticket, "issued_at", None) = isoformat(last.at)
          /\ ExpiryOf(last.result.value)
               = fromisoformat(DictGet(ticket, "issued_at", None)).value
                   + SERVICE_TICKET_LIFETIME_HOURS

\* the trailing bytes of a block sequence are a PKCS7 padding: the last byte
\* n is between 1 and the block size, not beyond the data, and the last n
\* bytes are all n
ConsistentPadding(padded_data) ==
    /\ Len(padded_data) > 0
    /\ LET n == padded_data[Len(padded_data)] IN
       /\ n >= 1
       /\ n <= AES_BLOCK_SIZE
       /\ n <= Len(padded_data)
       /\ \A i \in (Len(padded_data) - n + 1)..Len(padded_data) : padded_data[i] = n

\* C24 as claimed: _unpad_data, and aes_decrypt through it, fails with an
\* error for every block sequence whose trailing bytes are no consistent
\* PKCS7 padding, and returns no truncated data for it.
C24_PaddingValidated ==
    /\ (last.op = "_unpad_data" /\ ~ConsistentPadding(last.padded_data))
          => ~last.result.ok
    /\ (last.op = "aes_decrypt" /\ ~ConsistentPadding(last.decrypted))
          => ~last.result.ok

\* C26: validation does not consume a ticket.  In every state, whatever calls
\* have been made with it, each issued ticket whose expires_at is not past
\* is accepted by validate_service_ticket; a ticket that has just been
\* accepted is accepted again, and a TGT that has just been used to issue a
\* service ticket is still a valid TGT while its expires_at is not past.
C26_NotConsumed ==
    /\ \A e \in IssuedRecords : now <= SealedExpiry(e) => Valid(TicketOf(e))
    /\ (last.op = "validate_service_ticket" /\ last.result = TRUE)
          => Valid(last.ticket)
    /\ (/\ last.op = "generate_service_ticket"
        /\ last.result.ok
        /\ last.tgt \in Issued
        /\ now <= ExpiryOf(last.tgt))
          => /\ _validate_tgt(self, fernetLog, now, last.tgt) # None
             /\ Valid(last.tgt)

\* a TGT is accepted by validate_service_ticket after a service ticket has
\* been issued from it at an earlier hour
C26_Witness ==
    /\ last.op = "validate_service_ticket"
    /\ last.result = TRUE
    /\ \E e \in TgtRecords :
          /\ last.ticket = TicketOf(e)
          /\ \E st \in ServiceTicketRecords :
                /\ SealedField(st, "username") = SealedField(e, "username")
                /\ fromisoformat(SealedField(st, "issued_at")).value < last.at

\* C22: in every state, after whatever operations and failures, the instance
\* holds the key derived at construction, the salt and the two lifetimes it
\* was constructed with, and nothing else.
C22_KeyMaterialReadOnly ==
    /\ self.crypto_utils._fernet_key
         = _derive_key(DefaultEnv.CRYPTO_PASSWORD, DefaultEnv.CRYPTO_SALT)
    /\ self.crypto_utils.salt = DefaultEnv.CRYPTO_SALT
    /\ self.tgt_lifetime = timedelta(TGT_LIFETIME_HOURS)
    /\ self.service_ticket_lifetime = timedelta(SERVICE_TICKET_LIFETIME_HOURS)
    /\ DOMAIN self = { "secret_key", "crypto_utils", "tgt_lifetime",
                       "service_ticket_lifetime" }
    /\ DOMAIN self.crypto_utils = { "salt", "_fernet_key" }

\* a decryption has failed after tickets were issued and time has passed
C22_Witness ==
    /\ last.op = "decrypt_data"
    /\ ~last.result.ok
    /\ Cardinality(Issued) >= 2
    /\ now > StartHour

\* C23: when the lookup in the credential store raises (a username that
\* cannot be a key) or the password verification raises (a password that is
\* no string, for a principal the store holds), authenticate_user returns
\* None: neither an error nor a user.
C23_ErrorIsFailure ==
    last.op = "authenticate_user" =>
      LET user == _get_user_by_username(last.username, << 1, 2, 3 >>, last.at) IN
      (\/ "error" \in DOMAIN user
       \/ /\ user # None
          /\ ~checkpw_encoded(last.password, user.password_hash).ok)
        => last.result = None

\* both errors have been met: the lookup has raised for a list, and the
\* verification for the password None of an existing principal
C23_Witness ==
    /\ last.op = "authenticate_user"
    /\ last.result = None
    /\ \/ last.username = PyList(<< PyStr("admin") >>) /\ last.password = PyStr("admin123")
       \/ last.username = PyStr("admin") /\ last.password = None

\* the two configurations give the same passphrase and salt
SameConfiguration(env1, env2) ==
    /\ env1.CRYPTO_PASSWORD = env2.CRYPTO_PASSWORD
    /\ env1.CRYPTO_SALT = env2.CRYPTO_SALT

\* C27: instances built with the same passphrase and salt hold the same
\* master key, instances built with another passphrase or another salt hold
\* another one; a ticket one instance issued, presented before it expires to
\* a second instance, is accepted when the second has the same passphrase and
\* salt and refused when it has another passphrase or another salt.
C27_SameConfigurationSameKey ==
    /\ \A env \in PeerEnvs :
          (KerberosAuth(env).crypto_utils._fernet_key = self.crypto_utils._fernet_key)
            <=> SameConfiguration(env, DefaultEnv)
    /\ (/\ last.op = "validate_elsewhere"
        /\ last.ticket \in Issued
        /\ last.at <= ExpiryOf(last.ticket))
          => (last.result <=> SameConfiguration(last.env, DefaultEnv))

\* an issued ticket has been accepted by a second instance of the same
\* configuration
C27_Witness ==
    /\ last.op = "validate_elsewhere"
    /\ last.ticket \in Issued
    /\ last.env = DefaultEnv
    /\ last.result = TRUE
    /\ now > StartHour

\* an issued ticket has been refused by an instance with another salt
C27_RefusedElsewhere ==
    /\ last.op = "validate_elsewhere"
    /\ last.ticket \in Issued
    /\ last.at <= ExpiryOf(last.ticket)
    /\ last.env = OtherSaltEnv
    /\ last.result = FALSE

\* the seals a ticket text decodes to
IsSealOf(e, t) ==
    LET d == b64decode(t) IN
    d.ok /\ FernetDecrypt(e.key, << e >>, d.value).ok

\* the history of a process in which nothing has happened but the sealing
\* of the ticket t
AloneLog(t) == SelectSeq(fernetLog, LAMBDA e : IsSealOf(e, t))

EndpointTgt == fernetLog[Len(fernetLog)]

\* the request to /api/kerberos/tgt that has just returned was granted
TgtGranted == last.op = "request_tgt" /\ last.response.status = 200

\* the user_id of every TGT the endpoint issues is the identity of the
\* bearer token, which login has returned
UserIdIsCaller ==
    TgtGranted =>
      /\ last.bearer \in http.tokens
      /\ SealedField(EndpointTgt, "user_id") = last.bearer.jwt.sub
      /\ SealedField(EndpointTgt, "user_id") \in http.authenticated

\* C30: in every TGT issued through /api/kerberos/tgt, user_id and username
\* are those of one principal of the store, the one whose login returned the
\* bearer token of the request.
C30_TgtNamesCaller ==
    TgtGranted =>
      \E name \in DOMAIN mock_users(<< 1, 2, 3 >>, now) :
        LET user == mock_users(<< 1, 2, 3 >>, now)[name] IN
        /\ user.id = last.bearer.jwt.sub
        /\ SealedField(EndpointTgt, "user_id") = user.id
        /\ SealedField(EndpointTgt, "username") = user.username

\* the response carries the resource
ResourceReturned(response) ==
    "data" \in DOMAIN response.body \/ "resource_id" \in DOMAIN response.body

\* validate_service_ticket returns True for the text of the header now
HeaderValid(service_ticket) == Valid(service_ticket.chars)

\* C28 as stated: the resource is returned only for a header
\* validate_service_ticket accepts at the time of the request; a request
\* without the header is answered 401, a request whose header holds a ticket
\* that is not accepted is answered 403, both without the resource.
C28_ResourceOnlyWithTicket ==
    last.op = "access_resource" =>
      /\ ResourceReturned(last.response) =>
            last.service_ticket # None /\ HeaderValid(last.service_ticket)
      /\ last.service_ticket = None =>
            last.response.status = 401 /\ ~ResourceReturned(last.response)
      /\ (last.service_ticket # None /\ ~HeaderValid(last.service_ticket)) =>
            last.response.status = 403 /\ ~ResourceReturned(last.response)

\* C28, amended: the resource is returned only for a header
\* validate_service_ticket accepts at the time of the request, which is the
\* text of a ticket this instance sealed and whose expires_at is not past; a
\* request without the header or with an empty header is answered 401, a
\* request whose non-empty header is not accepted is answered 403, both
\* without the resource.
C28_ResourceOnlyWithNonEmptyTicket ==
    last.op = "access_resource" =>
      LET header == last.service_ticket
          empty == header \in { None, PyChars(<< >>) }
      IN  /\ ResourceReturned(last.response) =>
                /\ ~empty
                /\ last.response.status = 200
                /\ HeaderValid(header)
                /\ \E e \in IssuedRecords :
                      IsSealOf(e, header.chars) /\ now <= SealedExpiry(e)
          /\ empty => last.response.status = 401 /\ ~ResourceReturned(last.response)
          /\ (~empty /\ ~HeaderValid(header)) =>
                last.response.status = 403 /\ ~ResourceReturned(last.response)
          /\ (~empty /\ HeaderValid(header)) => ResourceReturned(last.response)

\* a request with the header of an expired ticket has been answered 403
\* after a request was granted
C28_Witness ==
    /\ last.op = "access_resource"
    /\ last.response.status = 403
    /\ last.service_ticket # None
    /\ last.service_ticket.chars \in Issued
    /\ now > ExpiryOf(last.service_ticket.chars)

\* a request has been granted
C28_Granted ==
    /\ last.op = "access_resource"
    /\ ResourceReturned(last.response)
    /\ last.service_ticket.chars \in Issued

\* the i-th sealing was made under the master key of this instance
ByMasterKey(i) == fernetLog[i].key = self.crypto_utils._fernet_key

\* the i-th sealing is a service ticket
IsServiceTicket(i) == DictHas(SealedEnvelope(fernetLog[i]), "service_name")

\* C29: with clients that hold only what the endpoints returned, a resource
\* is returned only for a text that decodes to a ticket an endpoint sealed
\* before; a service ticket is issued only for a text that decodes to a
\* ticket sealed before it, whose user_id and username it carries; a TGT is
\* issued only to the bearer of a token login returned before; and login
\* returns a token only for an identity authenticate_user returned a user
\* for, in that very request.
C29_ProtocolOrder ==
    /\ (last.op = "access_resource" /\ ResourceReturned(last.response)) =>
          \E j \in 1..Len(fernetLog) :
             ByMasterKey(j) /\ IsSealOf(fernetLog[j], last.service_ticket.chars)
    /\ (last.op = "request_service_ticket" /\ last.response.status = 200) =>
          \E j \in 1..(Len(fernetLog) - 1) :
             /\ ByMasterKey(j)
             /\ IsSealOf(fernetLog[j], DictItem(last.data.dict, "tgt").chars)
             /\ IsServiceTicket(Len(fernetLog))
    /\ \A i \in 1..Len(fernetLog) :
          ByMasterKey(i) =>
            IF IsServiceTicket(i)
            THEN \E j \in 1..(i - 1) :
                    /\ ByMasterKey(j)
                    /\ SealedField(fernetLog[j], "user_id")
                          = SealedField(fernetLog[i], "user_id")
                    /\ SealedField(fernetLog[j], "username")
                          = SealedField(fernetLog[i], "username")
            ELSE SealedField(fernetLog[i], "user_id") \in http.authenticated
    /\ (last.op = "request_tgt" /\ last.response.status = 200) =>
          /\ last.bearer \in http.tokens
          /\ ~IsServiceTicket(Len(fernetLog))
    /\ \A token \in http.tokens : token.jwt.sub \in http.authenticated
    /\ (last.op = "login" /\ last.result.response.status = 200) =>
          /\ last.result.response.body.token \in http.tokens
          /\ authenticate_user(DictGet(last.data, "username", None),
                               DictGet(last.data, "password", None),
                               << 1, 2, 3 >>, last.at) # None

\* a resource has been returned for a service ticket issued from a TGT that
\* was issued to the bearer of a token
C29_Witness ==
    /\ last.op = "access_resource"
    /\ ResourceReturned(last.response)
    /\ Len(fernetLog) = 3
    /\ IsServiceTicket(3)
    /\ ~IsServiceTicket(2)
    /\ IsSealOf(fernetLog[3], last.service_ticket.chars)
    /\ http.tokens # {}

\* the sealings before the last one that are service tickets of this
\* instance with the text t
ServiceTicketSeals(t) ==
    { i \in 1..(Len(fernetLog) - 1) :
        ByMasterKey(i) /\ IsServiceTicket(i) /\ TicketOf(fernetLog[i]) = t }

\* C31: generate_service_ticket given, as tgt, a service ticket this instance
\* issued and whose expires_at is not past, succeeds: it seals a new service
\* ticket that carries the principal of the one given, expires the service
\* lifetime after the clock reading the call takes for it (the clock as the
\* call returns) and is valid.
C31_ServiceTicketAsTgt ==
    (/\ last.op = "generate_service_ticket"
     /\ \E i \in 1..Len(fernetLog) :
           /\ ByMasterKey(i) /\ IsServiceTicket(i)
           /\ TicketOf(fernetLog[i]) = last.tgt
           /\ last.at <= SealedExpiry(fernetLog[i])
           /\ i < Len(fernetLog) \/ ~last.result.ok)
      => /\ last.result.ok
         /\ IsServiceTicket(Len(fernetLog))
         /\ last.result.value = TicketOf(fernetLog[Len(fernetLog)])
         /\ SealedExpiry(fernetLog[Len(fernetLog)])
               = now + SERVICE_TICKET_LIFETIME_HOURS
         /\ now >= last.at
         /\ \A i \in ServiceTicketSeals(last.tgt) :
               SealedField(fernetLog[Len(fernetLog)], "username")
                 = SealedField(fernetLog[i], "username")
         /\ Valid(last.result.value)

\* by chaining, a ticket issued from a service ticket is valid after the
\* TGT at the head of the chain has expired
C31_Witness ==
    /\ last.op = "generate_service_ticket"
    /\ last.result.ok
    /\ ServiceTicketSeals(last.tgt) # {}
    /\ ~IsServiceTicket(2)
    /\ now > SealedExpiry(fernetLog[2])
    /\ Valid(last.result.value)

\* the sealings before the last one that are TGTs of this instance with the
\* text t
TgtSeals(t) ==
    { i \in 1..(Len(fernetLog) - 1) :
        ByMasterKey(i) /\ ~IsServiceTicket(i) /\ TicketOf(fernetLog[i]) = t }

\* C32: a service ticket issued from a TGT expires the service lifetime
\* after the clock reading the call takes for it, also when that is later
\* than the TGT's expires_at; and every service ticket whose own expires_at
\* is not past is accepted, whether or not the TGT it came from has expired.
C32_ExpiryNotBoundedByTgt ==
    /\ (/\ last.op = "generate_service_ticket"
        /\ last.result.ok
        /\ TgtSeals(last.tgt) # {})
          => /\ SealedExpiry(fernetLog[Len(fernetLog)])
                   = now + SERVICE_TICKET_LIFETIME_HOURS
             /\ \A i \in TgtSeals(last.tgt) : last.at <= SealedExpiry(fernetLog[i])
    /\ \A i \in 1..Len(fernetLog) :
          (ByMasterKey(i) /\ IsServiceTicket(i) /\ now <= SealedExpiry(fernetLog[i]))
            => Valid(TicketOf(fernetLog[i]))

\* a service ticket issued from the TGT has been accepted after the TGT
\* expired
C32_Witness ==
    /\ last.op = "validate_service_ticket"
    /\ last.result = TRUE
    /\ Len(fernetLog) = 3
    /\ ~IsServiceTicket(2)
    /\ IsServiceTicket(3)
    /\ last.ticket = TicketOf(fernetLog[3])
    /\ now > SealedExpiry(fernetLog[2])
    /\ ~Valid(TicketOf(fernetLog[2]))

\* the login request that has just returned gave a username and a password
\* for which authenticate_user returns a user
LoginAuthenticates ==
    /\ Truthy(DictGet(last.data, "username", None))
    /\ Truthy(DictGet(last.data, "password", None))
    /\ authenticate_user(DictGet(last.data, "username", None),
                         DictGet(last.data, "password", None),
                         << 1, 2, 3 >>, last.at) # None

\* the login request that has just returned gave a username and a password
\* for which authenticate_user returns None
LoginFails ==
    /\ Truthy(DictGet(last.data, "username", None))
    /\ Truthy(DictGet(last.data, "password", None))
    /\ authenticate_user(DictGet(last.data, "username", None),
                         DictGet(last.data, "password", None),
                         << 1, 2, 3 >>, last.at) = None

\* the threat analysis of the login request returned threat_level 'high'
HighThreat ==
    /\ DOMAIN last.threat_analysis = {"dict"}
    /\ DictGet(last.threat_analysis.dict, "threat_level", None) = PyStr("high")

\* C33: a login for which authenticate_user succeeded and the threat analysis
\* returned threat_level 'high' is answered 403 without a token, after the
\* analysis and before the vector storage; a login for which
\* authenticate_user failed is answered 401 without a token, and neither the
\* threat analysis nor the vector storage has been reached.
C33_BlockedLoginGetsNoToken ==
    last.op = "login" =>
      /\ (LoginAuthenticates /\ HighThreat) =>
            /\ last.result.response.status = 403
            /\ "token" \notin DOMAIN last.result.response.body
            /\ last.result.analysed
            /\ ~last.result.stored
      /\ LoginFails =>
            /\ last.result.response.status = 401
            /\ "token" \notin DOMAIN last.result.response.body
            /\ ~last.result.analysed
            /\ ~last.result.stored
      /\ "token" \in DOMAIN last.result.response.body =>
            LoginAuthenticates /\ ~HighThreat /\ last.result.response.status = 200

\* admin has logged in with the right password and has been blocked
C33_Witness ==
    /\ last.op = "login"
    /\ LoginAuthenticates
    /\ HighThreat
    /\ last.result.response.status = 403
    /\ http.tokens = {}

\* a login with a wrong password has been answered 401
C33_Refused ==
    /\ last.op = "login"
    /\ LoginFails
    /\ last.result.response.status = 401

\* the principal the lookup found for the call that has just returned is
\* marked inactive and was given its own password
InactiveWithPassword ==
    /\ last.op = "authenticate_user"
    /\ "found" \in DOMAIN last
    /\ ~last.found.is_active
    /\ checkpw_encoded(last.password, last.found.password_hash) = Ok(TRUE)

C35_PadUnpadRoundTrip ==
    /\ last.op = "_pad_data" =>
          /\ Len(last.result) % AES_BLOCK_SIZE = 0
          /\ Len(last.result) >= AES_BLOCK_SIZE
          /\ Len(last.result) > Len(last.data)
          /\ Len(last.result) - Len(last.data) <= AES_BLOCK_SIZE
          /\ Len(last.data) % AES_BLOCK_SIZE = 0 =>
                Len(last.result) = Len(last.data) + AES_BLOCK_SIZE
          /\ SubSeq(last.result, 1, Len(last.data)) = last.data
          /\ _unpad_data(last.result) = Ok(last.data)
    /\ last.op = "_unpad_data" =>
          \A d \in PadInputs :
             last.padded_data = _pad_data(d) => last.result = Ok(d)
    /\ (last.op = "aes_encrypt" /\ last.result.ok) =>
          /\ Len(last.result.value[1].aes_cbc) % AES_BLOCK_SIZE = 0
          /\ \A o \in DecryptedInputs :
                aes_decrypt(last.result.value[1], last.key, last.result.value[2], o)
                  = Ok(last.plaintext)
    /\ (/\ last.op = "aes_decrypt"
        /\ last.ciphertext.key = last.key
        /\ last.ciphertext.iv = last.iv) =>
          /\ last.result.ok
          /\ aes_encrypt(last.result.value, last.key, last.iv)
                = Ok(<< last.ciphertext, last.iv >>)

\* a text that fills one block has been encrypted and decrypted again
C35_Witness ==
    /\ last.op = "aes_decrypt"
    /\ last.ciphertext.key = last.key
    /\ last.ciphertext.iv = last.iv
    /\ last.result = Ok(PyChars(Fill(97, AES_BLOCK_SIZE)))
    /\ Len(last.decrypted) = 2 * AES_BLOCK_SIZE
=========================================================================
